---- MODULE Spec2Model ----
(***************************************************************************)
(* PolicyTLDR: the background service worker's SUMMARIZE_POLICY handler,   *)
(* the summary cache kept in chrome.storage.local ("summaries"), the       *)
(* provider call of summarizePolicy and the rendered-page distillation.    *)
(*                                                                         *)
(* Every `await` of the source is a point where another handler can run,   *)
(* so an async function is split into one action per await that touches    *)
(* state shared with other handlers; awaits that touch nothing shared are  *)
(* folded into the step before them.                                       *)
(***************************************************************************)
EXTENDS Integers, Sequences, FiniteSets, TLC

(***************************************************************************)
(* Bounds of the model.                                                    *)
(***************************************************************************)
NumInvocations == 2   \* SUMMARIZE_POLICY messages handled in one run
NumKeys == 2          \* distinct policy URLs
NumVersions == 2      \* distinct contents a policy page can have
NumRecords == 2       \* distinct records the provider can produce

Procs == 1..NumInvocations
Keys == 1..NumKeys
Records == 1..NumRecords

(***************************************************************************)
(* part_004:320  `bodyText.length < 200` selects the rendered-page path.   *)
(***************************************************************************)
MIN_BODY_LENGTH == 200

\* A distilled text is abstracted to its length and its content version.
EmptyText == [len |-> 0, v |-> 1]
ShortText == [len |-> MIN_BODY_LENGTH - 1, v |-> 1]
LongTexts == [len : {MIN_BODY_LENGTH}, v : 1..NumVersions]
Texts == {EmptyText, ShortText} \cup LongTexts
\* what fetch(message.url) + extractBodyTextFromHTML can yield
PrimaryTexts == {ShortText} \cup LongTexts
\* what extractBodyTextByLoadingPage can resolve with ("" on any failure)
RenderedTexts == {EmptyText, [len |-> MIN_BODY_LENGTH, v |-> 1]}

\* hashText: SHA-256 hex digest; distinct texts get distinct digests.
hashText(t) == <<"sha256", t.len, t.v>>
NoHash == <<>>

NoEntry == [none |-> TRUE]
NoResponse == [none |-> TRUE]
NoText == [none |-> TRUE]

\* Errors a SUMMARIZE_POLICY run can catch, by the text of err.message.
ErrPolicyFetch == "HTTP status when fetching policy"
ErrNoKey == "API key not set"
ErrHttp == "HTTP error status: body"
ErrHttpKeyText == "HTTP error status: API key not set"
ErrNetwork == "Failed to fetch"
ErrTimeout == "Request timed out"
ErrMalformed == "Missing required fields in response"
\* The handler tells the errors of summarizePolicy apart only by the test
\* below; one error of each outcome of the test stands for its class.
ProviderErrors == {ErrHttp, ErrHttpKeyText}
\* String(err.message).includes("API key not set")
IncludesApiKeyNotSet(e) == e \in {ErrNoKey, ErrHttpKeyText}

VARIABLES
  summaries,   \* chrome.storage.local "summaries": url -> entry
  apiKey,      \* the API key getApiKey() decrypts to ("" when none)
  now,         \* Date.now(), a logical clock advanced by every save
  pc,          \* position of each SUMMARIZE_POLICY handler run
  url,         \* message.url
  bodyText,    \* local bodyText
  hash,        \* local hash
  existing,    \* local existing
  snap,        \* the `summaries` object read by removeSummary / saveSummary
  summary,     \* local summary
  key,         \* summarizePolicy's local apiKey
  err,         \* the error caught by the handler
  response,    \* argument of sendResponse
  progress,    \* SUMMARY_PROGRESS steps sent, in order
  net,         \* network requests issued by the run
  calls,       \* number of summarizePolicy calls of the run
  popup        \* the popup's removeSummary call in flight

VARIABLES
  tabs,          \* ids of the tabs open in the browser
  tabStatus,     \* tab id -> "loading" | "complete"
  xpc,           \* position of the extractBodyTextByLoadingPage call
  createdTabId,  \* local createdTabId (0: undefined)
  waitListener,  \* waitForTabLoadComplete's listener is registered
  waitTimer,     \* waitForTabLoadComplete's timer is pending
  waitDone,      \* waitForTabLoadComplete's local done
  waitBy,        \* what resolved the wait: "complete" | "timeout"
  injected,      \* how executeScript settled: "ok" | "error"
  xresult        \* what the call resolved with

VARIABLES
  spc,        \* position of the summarizePolicy call
  clock,      \* milliseconds since the model started
  timeoutId,  \* the abort timer is pending
  deadline,   \* when the abort timer is due
  aborted,    \* controller.signal.aborted
  sErr,       \* message of the error summarizePolicy rejected with
  requests,   \* number of fetch calls to the provider issued by the call
  httpStatus  \* how fetch settled: "none" | "ok" | "notok" | "neterr"

VARIABLES
  message,    \* data.choices[0].message of the provider reply
  parsed,     \* summarizePolicy's local parsed
  norm,       \* the record summarizePolicy returns
  npc         \* position in the normalization of the reply

VARIABLES
  recovered,    \* String(parsed?.score_explanation ?? ""), as recovered
  explanation,  \* norm's local explanation
  epc           \* position in the clean-up of the explanation

VARIABLES
  html,       \* the fetched markup, or the text read from the rendered page
  via,        \* "html": extractBodyTextFromHTML, "page": the rendered page
  hasParser,  \* typeof DOMParser !== "undefined"
  text,       \* the text being distilled, then the distilled text
  tpc         \* position in the distillation

VARIABLES
  cache,      \* lookupTosdr's Map: clean domain -> { ts, result }
  dateNow,    \* Date.now() in milliseconds
  lpc,        \* position of each lookupTosdr call
  ldomain,    \* the call's argument
  lnow,       \* the call's local now
  lcached,    \* the call's local cached
  lrequests,  \* fetch calls the call has issued
  loutcome,   \* how the call ended: "hit", "notok", "json", "throw", "empty"
  lresult     \* what the call returned

VARIABLES
  policyLinks,     \* Map tab id -> detected policy url
  pageLangs,       \* Map tab id -> page language
  iconState,       \* tab id -> state last given to setIconState
  tabLife,         \* tab id -> "future" | "open" | "gone"
  ignoredDomains,  \* chrome.storage.local "ignoredDomains"
  adding,          \* the panel's addIgnoredDomain call in flight
  det              \* detection handlers awaiting isDomainIgnored

VARIABLES
  secret,         \* chrome.storage.local "secret"
  apiKeyPayload,  \* chrome.storage.local "apiKey": the encrypted key
  keyCalls        \* the saveApiKey / getApiKey calls

mainVars == <<summaries, apiKey, now, pc, url, bodyText, hash, existing, snap,
              summary, key, err, response, progress, net, calls, popup>>
tabVars == <<tabs, tabStatus, xpc, createdTabId, waitListener, waitTimer,
             waitDone, waitBy, injected, xresult>>
aiVars == <<spc, clock, timeoutId, deadline, aborted, sErr, requests, httpStatus>>
normVars == <<message, parsed, norm, npc>>
explVars == <<recovered, explanation, epc>>
textVars == <<html, via, hasParser, text, tpc>>
tosdrVars == <<cache, dateNow, lpc, ldomain, lnow, lcached, lrequests, loutcome, lresult>>
detectVars == <<policyLinks, pageLangs, iconState, tabLife, ignoredDomains, adding, det>>
secretVars == <<secret, apiKeyPayload, keyCalls>>
auxVars == <<tosdrVars, detectVars, secretVars>>
pureVars == <<normVars, explVars, textVars, auxVars>>
\* everything but the variables of auxVars
coreVars == <<mainVars, tabVars, aiVars, normVars, explVars, textVars>>
vars == <<mainVars, tabVars, aiVars, pureVars>>

\* no `summaries` object is held outside removeSummary / saveSummary
NoSnap == [k \in Keys |-> NoEntry]
\* tabs the user has open, and the id chrome.tabs.create gives the next tab
NumUserTabs == 1
UserTabs == 1..NumUserTabs
NewTabId == NumUserTabs + 1
TabIds == 1..NewTabId

PopupIdle == [pc |-> "idle", url |-> 1, snap |-> NoSnap]

InitialEntry == [summary |-> 1, hash |-> hashText([len |-> MIN_BODY_LENGTH, v |-> 1]), date |-> 0]

\* the JavaScript value undefined; the other values follow the handler model
Undef == [t |-> "undefined"]

InitHandlers ==
  /\ summaries \in {NoSnap, [NoSnap EXCEPT ![1] = InitialEntry]}
  /\ apiKey \in {"", "sk"}
  /\ now = 1
  /\ pc = [p \in Procs |-> "idle"]
  /\ url = [p \in Procs |-> 1]
  /\ bodyText = [p \in Procs |-> NoText]
  /\ hash = [p \in Procs |-> NoHash]
  /\ existing = [p \in Procs |-> NoEntry]
  /\ snap = [p \in Procs |-> NoSnap]
  /\ summary = [p \in Procs |-> 0]
  /\ key = [p \in Procs |-> ""]
  /\ err = [p \in Procs |-> ""]
  /\ response = [p \in Procs |-> NoResponse]
  /\ progress = [p \in Procs |-> <<>>]
  /\ net = [p \in Procs |-> {}]
  /\ calls = [p \in Procs |-> 0]
  /\ popup = PopupIdle
  /\ tabs = UserTabs
  /\ tabStatus = [t \in TabIds |-> "loading"]
  /\ xpc = "idle"
  /\ createdTabId = 0
  /\ waitListener = FALSE
  /\ waitTimer = FALSE
  /\ waitDone = FALSE
  /\ waitBy = "none"
  /\ injected = "none"
  /\ xresult = NoText
  /\ spc = "idle"
  /\ clock = 0
  /\ timeoutId = FALSE
  /\ deadline = 0
  /\ aborted = FALSE
  /\ sErr = ""
  /\ requests = 0
  /\ httpStatus = "none"

\* no reply is being normalized and no text is being cleaned
InitPureIdle ==
  /\ message = Undef
  /\ parsed = Undef
  /\ norm = Undef
  /\ npc = "off"
  /\ recovered = <<>>
  /\ explanation = <<>>
  /\ epc = "off"
  /\ html = <<>>
  /\ via = "html"
  /\ hasParser = TRUE
  /\ text = <<>>
  /\ tpc = "off"

\* ToS;DR ratings a lookup can return; JavaScript null when there is none
NumRatings == 1
Ratings == 1..NumRatings
NullResult == [t |-> "null"]
TosdrResult(r) == [source |-> "tosdr", rating |-> r]
TosdrResults == {NullResult} \cup {TosdrResult(r) : r \in Ratings}

\* a domain is the sequence of its labels; "" is the empty sequence
Domains == {<<>>, <<"d">>, <<"www", "d">>}
\* part_000:15  domain.replace(/^www\./, '')
CleanDomain(d) == IF Len(d) > 0 /\ d[1] = "www" THEN Tail(d) ELSE d
CleanDomains == {CleanDomain(d) : d \in Domains \ {<<>>}}

NumLookups == 3
Lookups == 1..NumLookups

\* part_000:8: the Map is empty when the module is loaded; no call runs
InitTosdrIdle ==
  /\ cache = [d \in CleanDomains |-> NoEntry]
  /\ dateNow = 0
  /\ lpc = [c \in Lookups |-> "idle"]
  /\ ldomain = [c \in Lookups |-> <<>>]
  /\ lnow = [c \in Lookups |-> 0]
  /\ lcached = [c \in Lookups |-> NoEntry]
  /\ lrequests = [c \in Lookups |-> 0]
  /\ loutcome = [c \in Lookups |-> "none"]
  /\ lresult = [c \in Lookups |-> NullResult]

\* tabs the detection sees, and the handlers that can be awaiting at once
NumDetectTabs == 2
DetectTabs == 1..NumDetectTabs
NumDetections == 2
Detections == 1..NumDetections

\* a url is its hostname and whether it contains one of KEYWORDS; the
\* hostnames are those of the policy urls
Hosts == Keys
DetectUrls == [host : Hosts, kw : {TRUE}] \cup {[host |-> 1, kw |-> FALSE]}
NoLink == [none |-> TRUE]
NoLang == "none"
DetIdle == [pc |-> "idle", kind |-> "none", tab |-> 1, url |-> NoLink]
AddIdle == [pc |-> "idle", domain |-> 1, list |-> {}]

\* part_004:94-95: both Maps are empty when the worker starts; one tab is
\* open, nothing is ignored, no handler is running
InitDetectIdle ==
  /\ policyLinks = [t \in DetectTabs |-> NoLink]
  /\ pageLangs = [t \in DetectTabs |-> NoLang]
  /\ iconState = [t \in DetectTabs |-> "default"]
  /\ tabLife = [t \in DetectTabs |-> IF t = 1 THEN "open" ELSE "future"]
  /\ ignoredDomains = {}
  /\ adding = AddIdle
  /\ det = [h \in Detections |-> DetIdle]

\* calls of saveApiKey / getApiKey, in the order they start
NumSecretCalls == 2
SecretCalls == 1..NumSecretCalls
NoSecret == <<>>
NoPayload == [none |-> TRUE]
CallIdle == [pc |-> "idle", op |-> "none", key |-> "", payload |-> NoPayload,
             newSecret |-> NoSecret, secret |-> NoSecret, result |-> ""]

\* nothing is stored and no call runs
InitSecretIdle ==
  /\ secret = NoSecret
  /\ apiKeyPayload = NoPayload
  /\ keyCalls = [c \in SecretCalls |-> CallIdle]

InitAuxIdle == InitTosdrIdle /\ InitDetectIdle /\ InitSecretIdle

Init == InitHandlers /\ InitPureIdle /\ InitAuxIdle

(***************************************************************************)
(* SUMMARIZE_POLICY handler, part_004:292-368.                             *)
(***************************************************************************)
\* the `step` of the three SUMMARY_PROGRESS messages: part_004:298, 309, 334
StepFetching == "fetching_policy"
\* variant: the second message repeats the step of the third
StepFetched_Wrong == "sending_request"
StepFetched == "policy_fetched"
StepSending == "sending_request"

\* chrome.runtime.sendMessage({type: "SUMMARY_PROGRESS", step})
Emit(p, step) == [progress EXCEPT ![p] = Append(@, step)]

\* catch (err): part_004:349-365
ErrorResponse(e) ==
  IF IncludesApiKeyNotSet(e) THEN [error |-> "NO_API_KEY"] ELSE [error |-> "FAILED"]

\* variant: the stored hash is not compared
CacheMiss_IgnoreHash(e, h) == e = NoEntry

\* variant: the stored hash is compared with something that never equals it
CacheMiss_NeverEqual(e, h) == e = NoEntry \/ e.hash # <<"sha256", h>>

\* part_004:330  `!existing || existing.hash !== hash`
CacheMiss(e, h) == e = NoEntry \/ e.hash # h

\* part_004:320  `!bodyText || bodyText.length < 200`
NeedsRenderedPage_AtMost(t) ==
  t.len <= MIN_BODY_LENGTH

NeedsRenderedPage(t) == t.len < MIN_BODY_LENGTH

\* part_004:293-302: the message arrives, the first progress step is sent
\* and fetch(message.url) is issued.  Runs are numbered in arrival order.
StartSummarize(p, u) ==
  /\ pc[p] = "idle"
  /\ IF p = 1 THEN TRUE ELSE pc[p - 1] # "idle"
  /\ url' = [url EXCEPT ![p] = u]
  /\ progress' = Emit(p, StepFetching)
  /\ net' = [net EXCEPT ![p] = @ \cup {"policy"}]
  /\ pc' = [pc EXCEPT ![p] = "fetch_policy"]
  /\ UNCHANGED <<summaries, apiKey, now, bodyText, hash, existing, snap,
                 summary, key, err, response, calls, popup>>
  /\ UNCHANGED <<tabVars, aiVars, pureVars>>

\* part_004:302-306 and 349-364: fetch rejects, !res.ok, or res.text() rejects
FetchPolicyFail(p) ==
  /\ pc[p] = "fetch_policy"
  /\ err' = [err EXCEPT ![p] = ErrPolicyFetch]
  /\ response' = [response EXCEPT ![p] = ErrorResponse(ErrPolicyFetch)]
  /\ pc' = [pc EXCEPT ![p] = "done"]
  /\ UNCHANGED <<summaries, apiKey, now, url, bodyText, hash, existing, snap,
                 summary, key, progress, net, calls, popup>>
  /\ UNCHANGED <<tabVars, aiVars, pureVars>>

\* part_004:306-322: the html arrives, policy_fetched is sent, getLanguage
\* resolves, the body text is extracted; a short text starts the
\* rendered-page path (chrome.tabs.create loads the url in a tab).
FetchPolicyOk(p, t) ==
  /\ pc[p] = "fetch_policy"
  /\ progress' = Emit(p, StepFetched)
  /\ bodyText' = [bodyText EXCEPT ![p] = t]
  /\ IF NeedsRenderedPage(t)
       THEN /\ net' = [net EXCEPT ![p] = @ \cup {"tab"}]
            /\ pc' = [pc EXCEPT ![p] = "render"]
       ELSE /\ net' = net
            /\ pc' = [pc EXCEPT ![p] = "get_summary"]
  /\ UNCHANGED <<summaries, apiKey, now, url, hash, existing, snap,
                 summary, key, err, response, calls, popup>>
  /\ UNCHANGED <<tabVars, aiVars, pureVars>>

\* part_004:321: extractBodyTextByLoadingPage resolves (never rejects)
RenderedPage(p, t) ==
  /\ pc[p] = "render"
  /\ bodyText' = [bodyText EXCEPT ![p] = t]
  /\ pc' = [pc EXCEPT ![p] = "get_summary"]
  /\ UNCHANGED <<summaries, apiKey, now, url, hash, existing, snap,
                 summary, key, err, response, progress, net, calls, popup>>
  /\ UNCHANGED <<tabVars, aiVars, pureVars>>

\* part_004:325-341 with storage.js:88-91 (getSummary): the hash is computed,
\* the entry is read, and the run either answers from the cache, starts
\* removeSummary on a stale entry, or goes on to summarizePolicy.
GetSummary(p) ==
  /\ pc[p] = "get_summary"
  /\ LET h == hashText(bodyText[p])
         e == summaries[url[p]]
     IN /\ hash' = [hash EXCEPT ![p] = h]
        /\ existing' = [existing EXCEPT ![p] = e]
        /\ IF ~CacheMiss(e, h)
             THEN /\ summary' = [summary EXCEPT ![p] = e.summary]
                  /\ response' = [response EXCEPT ![p] = [summary |-> e.summary]]
                  /\ pc' = [pc EXCEPT ![p] = "done"]
                  /\ UNCHANGED <<progress, calls>>
             ELSE IF e # NoEntry
               THEN /\ pc' = [pc EXCEPT ![p] = "remove_get"]
                    /\ UNCHANGED <<summary, response, progress, calls>>
               ELSE /\ progress' = Emit(p, StepSending)
                    /\ calls' = [calls EXCEPT ![p] = @ + 1]
                    /\ pc' = [pc EXCEPT ![p] = "get_api_key"]
                    /\ UNCHANGED <<summary, response>>
  /\ UNCHANGED <<summaries, apiKey, now, url, bodyText, snap, key, err, net, popup>>
  /\ UNCHANGED <<tabVars, aiVars, pureVars>>

\* storage.js:158-160 then part_004:332-341 when nothing is left to remove
RemoveSummaryGet(p) ==
  /\ pc[p] = "remove_get"
  /\ IF summaries[url[p]] # NoEntry
       THEN /\ snap' = [snap EXCEPT ![p] = [summaries EXCEPT ![url[p]] = NoEntry]]
            /\ pc' = [pc EXCEPT ![p] = "remove_set"]
            /\ UNCHANGED <<progress, calls>>
       ELSE /\ snap' = snap
            /\ progress' = Emit(p, StepSending)
            /\ calls' = [calls EXCEPT ![p] = @ + 1]
            /\ pc' = [pc EXCEPT ![p] = "get_api_key"]
  /\ UNCHANGED <<summaries, apiKey, now, url, bodyText, hash, existing,
                 summary, key, err, response, net, popup>>
  /\ UNCHANGED <<tabVars, aiVars, pureVars>>

\* storage.js:161-162 then part_004:332-341
RemoveSummarySet(p) ==
  /\ pc[p] = "remove_set"
  /\ summaries' = snap[p]
  /\ snap' = [snap EXCEPT ![p] = NoSnap]
  /\ progress' = Emit(p, StepSending)
  /\ calls' = [calls EXCEPT ![p] = @ + 1]
  /\ pc' = [pc EXCEPT ![p] = "get_api_key"]
  /\ UNCHANGED <<apiKey, now, url, bodyText, hash, existing,
                 summary, key, err, response, net, popup>>
  /\ UNCHANGED <<tabVars, aiVars, pureVars>>

\* variant: the key is checked only after the request has been issued
SummarizePolicyGetApiKey_LateCheck(p) ==
  /\ pc[p] = "get_api_key"
  /\ key' = [key EXCEPT ![p] = apiKey]
  /\ net' = [net EXCEPT ![p] = @ \cup {"provider"}]
  /\ IF apiKey = ""
       THEN /\ err' = [err EXCEPT ![p] = ErrNoKey]
            /\ response' = [response EXCEPT ![p] = ErrorResponse(ErrNoKey)]
            /\ pc' = [pc EXCEPT ![p] = "done"]
       ELSE /\ pc' = [pc EXCEPT ![p] = "provider"]
            /\ UNCHANGED <<err, response>>
  /\ UNCHANGED <<summaries, apiKey, now, url, bodyText, hash, existing, snap,
                 summary, progress, calls, popup>>
  /\ UNCHANGED <<tabVars, aiVars, pureVars>>

\* ai.js:99-134: getApiKey resolves; an empty key throws "API key not set",
\* otherwise getAIOptions resolves and the provider request is issued.
SummarizePolicyGetApiKey(p) ==
  /\ pc[p] = "get_api_key"
  /\ key' = [key EXCEPT ![p] = apiKey]
  /\ IF apiKey = ""
       THEN /\ err' = [err EXCEPT ![p] = ErrNoKey]
            /\ response' = [response EXCEPT ![p] = ErrorResponse(ErrNoKey)]
            /\ pc' = [pc EXCEPT ![p] = "done"]
            /\ net' = net
       ELSE /\ net' = [net EXCEPT ![p] = @ \cup {"provider"}]
            /\ pc' = [pc EXCEPT ![p] = "provider"]
            /\ UNCHANGED <<err, response>>
  /\ UNCHANGED <<summaries, apiKey, now, url, bodyText, hash, existing, snap,
                 summary, progress, calls, popup>>
  /\ UNCHANGED <<tabVars, aiVars, pureVars>>

\* ai.js:129-350 failing: HTTP error, network error, timeout, bad reply
ProviderFail(p, e) ==
  /\ pc[p] = "provider"
  /\ err' = [err EXCEPT ![p] = e]
  /\ response' = [response EXCEPT ![p] = ErrorResponse(e)]
  /\ pc' = [pc EXCEPT ![p] = "done"]
  /\ UNCHANGED <<summaries, apiKey, now, url, bodyText, hash, existing, snap,
                 summary, key, progress, net, calls, popup>>
  /\ UNCHANGED <<tabVars, aiVars, pureVars>>

\* ai.js:343 returns the record; part_004:342 calls saveSummary
ProviderOk(p, r) ==
  /\ pc[p] = "provider"
  /\ summary' = [summary EXCEPT ![p] = r]
  /\ pc' = [pc EXCEPT ![p] = "save_get"]
  /\ UNCHANGED <<summaries, apiKey, now, url, bodyText, hash, existing, snap,
                 key, err, response, progress, net, calls, popup>>
  /\ UNCHANGED <<tabVars, aiVars, pureVars>>

\* storage.js:78-80: read all summaries, set this url's entry in the copy
SaveSummaryGet(p) ==
  /\ pc[p] = "save_get"
  /\ snap' = [snap EXCEPT ![p] =
       [summaries EXCEPT ![url[p]] =
          [summary |-> summary[p], hash |-> hash[p], date |-> now]]]
  /\ now' = now + 1
  /\ pc' = [pc EXCEPT ![p] = "save_set"]
  /\ UNCHANGED <<summaries, apiKey, url, bodyText, hash, existing,
                 summary, key, err, response, progress, net, calls, popup>>
  /\ UNCHANGED <<tabVars, aiVars, pureVars>>

\* storage.js:80 writes the copy back; part_004:345 answers
SaveSummarySet(p) ==
  /\ pc[p] = "save_set"
  /\ summaries' = snap[p]
  /\ snap' = [snap EXCEPT ![p] = NoSnap]
  /\ response' = [response EXCEPT ![p] = [summary |-> summary[p]]]
  /\ pc' = [pc EXCEPT ![p] = "done"]
  /\ UNCHANGED <<apiKey, now, url, bodyText, hash, existing,
                 summary, key, err, progress, net, calls, popup>>
  /\ UNCHANGED <<tabVars, aiVars, pureVars>>

HandlerStep(p) ==
  \/ \E u \in Keys : StartSummarize(p, u)
  \/ FetchPolicyFail(p)
  \/ \E t \in PrimaryTexts : FetchPolicyOk(p, t)
  \/ \E t \in RenderedTexts : RenderedPage(p, t)
  \/ GetSummary(p)
  \/ RemoveSummaryGet(p)
  \/ RemoveSummarySet(p)
  \/ SummarizePolicyGetApiKey(p)
  \/ \E e \in ProviderErrors : ProviderFail(p, e)
  \/ \E r \in Records : ProviderOk(p, r)
  \/ SaveSummaryGet(p)
  \/ SaveSummarySet(p)

(***************************************************************************)
(* The popup and the options page, which share chrome.storage.local.       *)
(***************************************************************************)
\* popup.js:313, popup.js:391 -> storage.js:158-160
PopupRemoveSummaryGet(k) ==
  /\ popup.pc = "idle"
  /\ summaries[k] # NoEntry
  /\ popup' = [pc |-> "remove_set", url |-> k, snap |-> [summaries EXCEPT ![k] = NoEntry]]
  /\ UNCHANGED <<summaries, apiKey, now, pc, url, bodyText, hash, existing, snap,
                 summary, key, err, response, progress, net, calls>>
  /\ UNCHANGED <<tabVars, aiVars, pureVars>>

\* storage.js:161-162
PopupRemoveSummarySet ==
  /\ popup.pc = "remove_set"
  /\ summaries' = popup.snap
  /\ popup' = PopupIdle
  /\ UNCHANGED <<apiKey, now, pc, url, bodyText, hash, existing, snap,
                 summary, key, err, response, progress, net, calls>>
  /\ UNCHANGED <<tabVars, aiVars, pureVars>>

\* popup.js:332 -> storage.js:171-173
ClearSummaries ==
  /\ \E k \in Keys : summaries[k] # NoEntry
  /\ summaries' = [k \in Keys |-> NoEntry]
  /\ UNCHANGED <<apiKey, now, pc, url, bodyText, hash, existing, snap,
                 summary, key, err, response, progress, net, calls, popup>>
  /\ UNCHANGED <<tabVars, aiVars, pureVars>>

\* options.js:81 -> storage.js:34-48; the key field may be saved empty
SaveApiKey(k) ==
  /\ apiKey # k
  /\ apiKey' = k
  /\ UNCHANGED <<summaries, now, pc, url, bodyText, hash, existing, snap,
                 summary, key, err, response, progress, net, calls, popup>>
  /\ UNCHANGED <<tabVars, aiVars, pureVars>>

PopupStep ==
  \/ \E k \in Keys : PopupRemoveSummaryGet(k)
  \/ PopupRemoveSummarySet
  \/ ClearSummaries

\* concurrent SUMMARIZE_POLICY runs
Next == \E p \in Procs : HandlerStep(p)

Spec == Init /\ [][Next]_vars

\* the runs together with the popup and the options page
NextEnv ==
  \/ \E p \in Procs : HandlerStep(p)
  \/ PopupStep
  \/ \E k \in {"", "sk"} : SaveApiKey(k)

SpecEnv == Init /\ [][NextEnv]_vars

\* runs in immediate succession: a message arrives only after the run
\* before it has answered
NextSeq ==
  \E p \in Procs :
    /\ \A q \in Procs \ {p} : pc[q] \in {"idle", "done"}
    /\ HandlerStep(p)

SpecSeq == Init /\ [][NextSeq]_vars

(***************************************************************************)
(* Properties of the summary cache and of the SUMMARIZE_POLICY handler.    *)
(***************************************************************************)
\* the run has looked the url up in the cache
LookedUp(p) == hash[p] # NoHash
\* what the run read was an entry whose hash equals the hash it computed
ReadHit(p) == LookedUp(p) /\ existing[p] # NoEntry /\ existing[p].hash = hash[p]
\* what the run read was an entry with another hash
ReadStale(p) == LookedUp(p) /\ existing[p] # NoEntry /\ existing[p].hash # hash[p]
Succeeded(p) == pc[p] = "done" /\ response[p] = [summary |-> summary[p]]

C1_Inv ==
  \A p \in Procs :
    /\ ReadHit(p) =>
         /\ pc[p] = "done"
         /\ calls[p] = 0
         /\ "provider" \notin net[p]
         /\ response[p] = [summary |-> existing[p].summary]
    /\ (LookedUp(p) /\ ~ReadHit(p) /\ pc[p] \notin {"remove_get", "remove_set"}) =>
         calls[p] = 1
    /\ ~LookedUp(p) => calls[p] = 0

C1_Step ==
  \A p \in Procs :
    (pc[p] = "get_summary" /\ pc'[p] # "get_summary") =>
      /\ existing'[p] = summaries[url[p]]
      /\ hash'[p] = hashText(bodyText[p])
      /\ pc'[p] = "done" => summaries' = summaries

\* C1: a SUMMARIZE_POLICY run on url K with fingerprint F' calls summarizePolicy
\* iff the entry it reads for K is absent or has a hash other than F'; when the
\* hash equals F' it answers with the cached record, issues no provider
\* request and leaves the stored summaries as they are.
C1_CacheValidity == []C1_Inv /\ [][C1_Step]_vars

\* a run answered from the cache and another one found a stale entry and
\* called summarizePolicy
C1_Witness ==
  \E p, q \in Procs :
    /\ ReadHit(p) /\ pc[p] = "done"
    /\ ReadStale(q) /\ calls[q] = 1

\* C2: when two runs for different urls both succeed, the cache afterwards
\* holds for each url the record and the hash its own run produced.
C2_BothEntriesKept ==
  \A p, q \in Procs :
    (p # q /\ url[p] # url[q] /\ Succeeded(p) /\ Succeeded(q)) =>
      /\ summaries[url[p]] # NoEntry
      /\ summaries[url[p]].summary = summary[p]
      /\ summaries[url[p]].hash = hash[p]

\* the run is between its read of its url's entry and its own write of it
InReadCheckWrite(p) ==
  pc[p] \in {"remove_get", "remove_set", "get_api_key", "provider", "save_get", "save_set"}

\* C3: between a run's read of K's entry and its own write of K, no step of
\* another run changes K's entry.
C3_ReadCheckWriteAtomic ==
  [][\A p \in Procs :
       (InReadCheckWrite(p) /\ pc'[p] = pc[p]) =>
         summaries'[url[p]] = summaries[url[p]]]_vars

\* C4: once a run has evicted the stale entry it read, the cache does not hold
\* that entry again before the run stores the new record, and a run never
\* answers with the record of an entry whose hash differs from its own.
C4_StaleNeverServed ==
  \A p \in Procs :
    /\ (ReadStale(p) /\ pc[p] \in {"get_api_key", "provider", "save_get", "save_set"}) =>
         summaries[url[p]] # existing[p]
    /\ (ReadStale(p) /\ Succeeded(p)) => calls[p] = 1

\* C5: a stored entry for K changes or disappears only by a step of
\* removeSummary(K), of saveSummary(K) or of clearSummaries.
C5_EntryPersists ==
  [][\A k \in Keys :
       (summaries[k] # NoEntry /\ summaries'[k] # summaries[k]) =>
         \/ ClearSummaries
         \/ popup.pc = "remove_set" /\ popup.url = k /\ popup'.pc = "idle"
         \/ \E p \in Procs :
              /\ url[p] = k
              /\ pc[p] \in {"remove_set", "save_set"}
              /\ pc'[p] # pc[p]]_vars

\* q is the run right after p, same url, same distilled text, and no later
\* run has started
InSuccession(p, q) ==
  /\ q = p + 1
  /\ pc[p] = "done" /\ pc[q] = "done"
  /\ \A r \in Procs : r > q => pc[r] = "idle"
  /\ url[q] = url[p]
  /\ bodyText[q] = bodyText[p]

\* C6: two runs in immediate succession for the same url with unchanged
\* distilled text, the first one succeeding: the second calls no provider,
\* answers with the record the first answered with, and leaves the stored
\* entry (record, hash, date) as the first left it.
C6_IdempotentResummarize ==
  \A p, q \in Procs :
    (InSuccession(p, q) /\ Succeeded(p)) =>
      /\ calls[q] = 0
      /\ calls[p] + calls[q] <= 1
      /\ response[q] = response[p]
      /\ summaries[url[q]] = existing[q]
      /\ existing[q] # NoEntry
      /\ existing[q].summary = summary[p]
      /\ existing[q].hash = hash[p]

\* the first run called the provider and stored, the second one has answered
C6_Witness ==
  \E p, q \in Procs : InSuccession(p, q) /\ Succeeded(p) /\ calls[p] = 1

\* the run read an empty API key in summarizePolicy
ReadEmptyKey(p) == calls[p] = 1 /\ pc[p] # "get_api_key" /\ key[p] = ""

\* C7 as stated: a run that fails on the empty API key has issued no network
\* request of any kind.
C7_NoRequestOfAnyKind ==
  \A p \in Procs : ReadEmptyKey(p) => net[p] = {}

\* C7 amended: a run that reads an empty API key fails with "API key not set"
\* (answer NO_API_KEY) without having issued a provider request; the policy
\* page fetch has been issued by then.
C7_NoProviderRequest ==
  \A p \in Procs :
    ReadEmptyKey(p) =>
      /\ pc[p] = "done"
      /\ err[p] = ErrNoKey
      /\ response[p] = [error |-> "NO_API_KEY"]
      /\ "provider" \notin net[p]
      /\ "policy" \in net[p]

\* a run failed on the empty key, one of them after loading the page in a tab
C7_Witness ==
  \E p \in Procs : ReadEmptyKey(p) /\ "tab" \in net[p]

IsPrefix(s, t) == Len(s) <= Len(t) /\ \A i \in 1..Len(s) : s[i] = t[i]

\* C10: the progress steps of a run are a prefix of fetching_policy,
\* policy_fetched, sending_request; sending_request is sent exactly when
\* summarizePolicy is called, never on a cache hit.
C10_ProgressOrder ==
  \A p \in Procs :
    /\ IsPrefix(progress[p], <<"fetching_policy", "policy_fetched", "sending_request">>)
    /\ Len(progress[p]) = 3 <=> calls[p] = 1
    /\ ReadHit(p) => Len(progress[p]) = 2
    /\ pc[p] # "idle" => Len(progress[p]) >= 1
    /\ LookedUp(p) => Len(progress[p]) >= 2

\* one run sent all three steps, another one answered from the cache after two
C10_Witness ==
  \E p, q \in Procs :
    /\ Len(progress[p]) = 3
    /\ ReadHit(q) /\ pc[q] = "done" /\ Len(progress[q]) = 2

\* the step stores for k an entry that was not there before the step
EntryWritten(k) == summaries'[k] # NoEntry /\ summaries'[k] # summaries[k]

\* C22: an entry for K is stored only by the saveSummary of a run for K
\* whose summarizePolicy call returned a record: the stored hash is the hash
\* that run computed, the stored summary is the record the run answers with,
\* and a run that fails stores no entry.
C22_EntryWrittenByOwnRun ==
  [][\A k \in Keys :
       EntryWritten(k) =>
         \E p \in Procs :
           /\ url[p] = k
           /\ pc[p] = "save_set" /\ pc'[p] = "done"
           /\ calls[p] = 1 /\ err[p] = ""
           /\ summaries'[k].hash = hash[p]
           /\ hash[p] = hashText(bodyText[p])
           /\ summaries'[k].summary = summary[p]
           /\ response'[p] = [summary |-> summaries'[k].summary]]_vars

\* the run found an entry with another hash and its regeneration failed
FailedRegeneration(p) == ReadStale(p) /\ pc[p] = "done" /\ err[p] # ""

\* C29: after a run that found a stale entry for K and then failed (missing
\* key, provider error), K has no entry, unless another run for K has stored
\* its own record since: the record the run found is not in the cache again.
C29_EvictedOnFailure ==
  \A p \in Procs :
    FailedRegeneration(p) =>
      \/ summaries[url[p]] = NoEntry
      \/ \E q \in Procs \ {p} :
           /\ url[q] = url[p]
           /\ Succeeded(q) /\ calls[q] = 1
           /\ summaries[url[p]].summary = summary[q]
           /\ summaries[url[p]].hash = hash[q]
           /\ summaries[url[p]] # existing[p]

\* the step completes a saveSummary(k): storage.js:80
SaveSummaryCompletes(k) ==
  \E p \in Procs : url[p] = k /\ pc[p] = "save_set" /\ pc'[p] = "done"

\* C28: once K has no entry (removeSummary(K) returned true, or
\* clearSummaries completed), getSummary(K) returns null until a
\* saveSummary(K) stores one: no other step, in particular no saveSummary
\* for another key, makes an entry for K appear.
C28_RemovedStaysRemoved ==
  [][\A k \in Keys :
       (summaries[k] = NoEntry /\ summaries'[k] # NoEntry) =>
         SaveSummaryCompletes(k)]_vars

\* the run has answered: sendResponse was called
Answered(p) == response[p] # NoResponse

\* C23: a run answers exactly when it ends, with {summary}, {error:
\* "NO_API_KEY"} or {error: "FAILED"}; the answer is NO_API_KEY iff the run
\* failed on the missing API key, and FAILED for every other failure.
C23_ResponseClassified ==
  \A p \in Procs :
    /\ Answered(p) <=> pc[p] = "done"
    /\ Answered(p) =>
         \/ response[p] = [summary |-> summary[p]] /\ err[p] = ""
         \/ response[p] = [error |-> "NO_API_KEY"] /\ err[p] = ErrNoKey
         \/ response[p] = [error |-> "FAILED"] /\ err[p] \notin {"", ErrNoKey}

(***************************************************************************)
(* Rendered-page distillation: extractBodyTextByLoadingPage,               *)
(* part_004:125-145, with waitForTabLoadComplete, part_004:151-169.        *)
(***************************************************************************)
\* part_004:128: the call starts and chrome.tabs.create is issued
ExtractStart ==
  /\ xpc = "idle"
  /\ xpc' = "creating"
  /\ UNCHANGED <<tabs, tabStatus, createdTabId, waitListener, waitTimer,
                 waitDone, waitBy, injected, xresult>>
  /\ UNCHANGED <<mainVars, aiVars, pureVars>>

\* part_004:128-130 and 152-168: the tab exists, its id is kept, and the
\* executor of waitForTabLoadComplete arms the timer and adds the listener
ExtractTabCreated ==
  /\ xpc = "creating"
  /\ tabs' = tabs \cup {NewTabId}
  /\ tabStatus' = [tabStatus EXCEPT ![NewTabId] = "loading"]
  /\ createdTabId' = NewTabId
  /\ waitTimer' = TRUE
  /\ waitListener' = TRUE
  /\ waitDone' = FALSE
  /\ xpc' = "waiting"
  /\ UNCHANGED <<waitBy, injected, xresult>>
  /\ UNCHANGED <<mainVars, aiVars, pureVars>>

\* part_004:140-144: finally removes the tab when there is one
AfterFinally(id) == IF id # 0 THEN "removing" ELSE "settled"

\* what a caller would see if the call's promise rejected
Rejected == [rejected |-> TRUE]

\* variant: the rejection of chrome.tabs.create is not caught
ExtractCreateFail_Rethrow ==
  /\ xpc = "creating"
  /\ xresult' = Rejected
  /\ xpc' = AfterFinally(createdTabId)
  /\ UNCHANGED <<tabs, tabStatus, createdTabId, waitListener, waitTimer,
                 waitDone, waitBy, injected>>
  /\ UNCHANGED <<mainVars, aiVars, pureVars>>

\* part_004:128, 138-144: chrome.tabs.create rejects
ExtractCreateFail ==
  /\ xpc = "creating"
  /\ xresult' = EmptyText
  /\ xpc' = AfterFinally(createdTabId)
  /\ UNCHANGED <<tabs, tabStatus, createdTabId, waitListener, waitTimer,
                 waitDone, waitBy, injected>>
  /\ UNCHANGED <<mainVars, aiVars, pureVars>>

\* part_004:154-159 finish, then part_004:131: the wait resolves and
\* delay(1200) starts
Finish(by) ==
  IF waitDone
    THEN UNCHANGED <<waitDone, waitListener, waitBy, xpc>>
    ELSE /\ waitDone' = TRUE
         /\ waitListener' = FALSE
         /\ waitBy' = by
         /\ xpc' = "delaying"

\* variant: the listener of the wait does not compare the tab id
TabUpdated_AnyTab(t, status) ==
  /\ t \in tabs
  /\ tabStatus[t] # status
  /\ tabStatus' = [tabStatus EXCEPT ![t] = status]
  /\ IF waitListener /\ status = "complete"
       THEN /\ waitTimer' = FALSE
            /\ Finish("complete")
       ELSE UNCHANGED <<waitTimer, waitDone, waitListener, waitBy, xpc>>
  /\ UNCHANGED <<tabs, createdTabId, injected, xresult>>
  /\ UNCHANGED <<mainVars, aiVars, pureVars>>

\* chrome.tabs.onUpdated fires for a tab whose status changes;
\* part_004:161-166 is the listener of the wait
TabUpdated(t, status) ==
  /\ t \in tabs
  /\ tabStatus[t] # status
  /\ tabStatus' = [tabStatus EXCEPT ![t] = status]
  /\ IF waitListener /\ t = createdTabId /\ status = "complete"
       THEN /\ waitTimer' = FALSE
            /\ Finish("complete")
       ELSE UNCHANGED <<waitTimer, waitDone, waitListener, waitBy, xpc>>
  /\ UNCHANGED <<tabs, createdTabId, injected, xresult>>
  /\ UNCHANGED <<mainVars, aiVars, pureVars>>

\* part_004:160: the 15000 ms timer of the wait fires
WaitTimeout ==
  /\ waitTimer
  /\ waitTimer' = FALSE
  /\ Finish("timeout")
  /\ UNCHANGED <<tabs, tabStatus, createdTabId, injected, xresult>>
  /\ UNCHANGED <<mainVars, aiVars, pureVars>>

\* part_004:131-132: the settle delay is over, executeScript is issued
DelayDone ==
  /\ xpc = "delaying"
  /\ xpc' = "injecting"
  /\ UNCHANGED <<tabs, tabStatus, createdTabId, waitListener, waitTimer,
                 waitDone, waitBy, injected, xresult>>
  /\ UNCHANGED <<mainVars, aiVars, pureVars>>

\* part_004:132-137, 140-144: the injected function returned the page text
InjectOk(t) ==
  /\ xpc = "injecting"
  /\ createdTabId \in tabs
  /\ injected' = "ok"
  /\ xresult' = t
  /\ xpc' = AfterFinally(createdTabId)
  /\ UNCHANGED <<tabs, tabStatus, createdTabId, waitListener, waitTimer,
                 waitDone, waitBy>>
  /\ UNCHANGED <<mainVars, aiVars, pureVars>>

\* variant: the tab is removed only after a successful injection
InjectFail_NoCleanup ==
  /\ xpc = "injecting"
  /\ injected' = "error"
  /\ xresult' = EmptyText
  /\ xpc' = "settled"
  /\ UNCHANGED <<tabs, tabStatus, createdTabId, waitListener, waitTimer,
                 waitDone, waitBy>>
  /\ UNCHANGED <<mainVars, aiVars, pureVars>>

\* part_004:132, 138-144: executeScript rejects (tab gone, page not scriptable)
InjectFail ==
  /\ xpc = "injecting"
  /\ injected' = "error"
  /\ xresult' = EmptyText
  /\ xpc' = AfterFinally(createdTabId)
  /\ UNCHANGED <<tabs, tabStatus, createdTabId, waitListener, waitTimer,
                 waitDone, waitBy>>
  /\ UNCHANGED <<mainVars, aiVars, pureVars>>

\* part_004:142: chrome.tabs.remove closes the tab; it rejects when the tab
\* is no longer there, which the empty catch swallows
RemoveTab ==
  /\ xpc = "removing"
  /\ tabs' = tabs \ {createdTabId}
  /\ xpc' = "settled"
  /\ UNCHANGED <<tabStatus, createdTabId, waitListener, waitTimer,
                 waitDone, waitBy, injected, xresult>>
  /\ UNCHANGED <<mainVars, aiVars, pureVars>>

\* the user closes a tab, possibly the one the call created
UserClosesTab(t) ==
  /\ t \in tabs
  /\ tabs' = tabs \ {t}
  /\ UNCHANGED <<tabStatus, xpc, createdTabId, waitListener, waitTimer,
                 waitDone, waitBy, injected, xresult>>
  /\ UNCHANGED <<mainVars, aiVars, pureVars>>

NextTab ==
  \/ ExtractStart
  \/ ExtractTabCreated
  \/ ExtractCreateFail
  \/ \E t \in TabIds, st \in {"loading", "complete"} : TabUpdated(t, st)
  \/ WaitTimeout
  \/ DelayDone
  \/ \E t \in RenderedTexts : InjectOk(t)
  \/ InjectFail
  \/ RemoveTab
  \/ \E t \in TabIds : UserClosesTab(t)

SpecTab == Init /\ [][NextTab]_vars

\* C9: the tab created by extractBodyTextByLoadingPage is known to the call
\* while it runs and is closed when the call's promise settles, whichever
\* way the wait and the injection went.
C9_TabRemoved ==
  /\ tabs \ UserTabs \subseteq {createdTabId}
  /\ xpc = "settled" => tabs \subseteq UserTabs

\* the call settled after the load wait timed out and the injection failed
C9_Witness ==
  /\ xpc = "settled"
  /\ createdTabId # 0
  /\ waitBy = "timeout"
  /\ injected = "error"

\* setTimeout runs its callback once the delay has passed
SpecTabFair == SpecTab /\ WF_vars(WaitTimeout)

\* the tab the wait is for reports status "complete" in this step
OwnTabCompletes ==
  /\ createdTabId # 0
  /\ tabStatus[createdTabId] # "complete"
  /\ tabStatus'[createdTabId] = "complete"

C24_Inv ==
  /\ waitDone <=> waitBy # "none"
  /\ waitDone => ~waitListener
  /\ waitBy = "complete" => ~waitTimer
  /\ xpc = "waiting" <=> (waitListener /\ waitTimer /\ ~waitDone)
  /\ waitListener <=> waitTimer

C24_Step ==
  /\ waitDone => (waitDone' /\ waitBy' = waitBy)
  /\ (~waitDone /\ waitDone') =>
        /\ xpc = "waiting" /\ xpc' = "delaying"
        /\ \/ waitBy' = "complete" /\ OwnTabCompletes
           \/ waitBy' = "timeout" /\ tabStatus' = tabStatus
  /\ (xpc = "waiting" /\ OwnTabCompletes) => (waitDone' /\ waitBy' = "complete")
  /\ (\E t \in TabIds : t # createdTabId /\ tabStatus'[t] # tabStatus[t]) =>
        UNCHANGED <<waitDone, waitBy, waitListener, waitTimer, xpc>>

\* C24: waitForTabLoadComplete resolves exactly once, by the first status
\* "complete" update of its own tab or by its timer, whichever comes first;
\* updates of other tabs never resolve it; once resolved its listener is
\* removed and, when the completion came first, its timer is cleared.
C24_WaitResolvesOnce ==
  /\ []C24_Inv
  /\ [][C24_Step]_vars
  /\ (xpc = "waiting" ~> waitDone)

\* the wait was resolved by its own tab although another tab had completed
\* while it was pending
C24_Witness ==
  /\ waitBy = "complete"
  /\ xpc = "delaying"
  /\ \E t \in UserTabs : t \in tabs /\ tabStatus[t] = "complete"

\* the call has left its try block: the value it resolves with is fixed
Returning == xpc \in {"removing", "settled"}

\* C21 as stated: the call never rejects, and a failed tab creation, a load
\* wait that ended by its timeout, or a failed injection each make it resolve
\* with the empty string.
C21_AnyFailureYieldsEmpty ==
  Returning =>
    /\ xresult \in RenderedTexts
    /\ (createdTabId = 0 \/ waitBy = "timeout" \/ injected = "error")
         => xresult = EmptyText

\* C21, amended: the call never rejects; it resolves with the empty string
\* when chrome.tabs.create or executeScript rejects.  The load wait cannot
\* fail: its timeout resolves it, the script is still injected, and the text
\* the script returns is the result.
C21_RejectionYieldsEmpty ==
  Returning =>
    /\ xresult \in RenderedTexts
    /\ (createdTabId = 0 \/ injected = "error") => xresult = EmptyText
    /\ injected = "ok" => waitBy \in {"complete", "timeout"}

\* chrome.tabs.create rejected and the call resolved with the empty string
C21_Witness ==
  /\ xpc = "settled"
  /\ createdTabId = 0
  /\ xresult = EmptyText

(***************************************************************************)
(* summarizePolicy, ai.js:97-351: the provider call and its abort timer.   *)
(***************************************************************************)
\* ai.js:109  `timeout = 30000`
DEFAULT_TIMEOUT == 30000
\* the clock of the model advances in steps of TickMs up to MaxClock
TickMs == 15000
MaxClock == 60000

Min(a, b) == IF a < b THEN a ELSE b

\* ai.js:97-99: the call starts and awaits getApiKey
SummarizePolicyCall ==
  /\ spc = "idle"
  /\ spc' = "get_api_key"
  /\ UNCHANGED <<clock, timeoutId, deadline, aborted, sErr>>
  /\ UNCHANGED <<requests, httpStatus>>
  /\ UNCHANGED <<mainVars, tabVars, pureVars>>

\* ai.js:99-103: an empty key throws before the timer and the request exist
CheckApiKey ==
  /\ spc = "get_api_key"
  /\ IF apiKey = ""
       THEN spc' = "rejected" /\ sErr' = ErrNoKey
       ELSE spc' = "get_options" /\ sErr' = sErr
  /\ UNCHANGED <<clock, timeoutId, deadline, aborted>>
  /\ UNCHANGED <<requests, httpStatus>>
  /\ UNCHANGED <<mainVars, tabVars, pureVars>>

\* ai.js:103-134: the options are read, setTimeout(abort, timeout) is armed
\* and fetch is issued with the controller's signal
SendRequest ==
  /\ spc = "get_options"
  /\ timeoutId' = TRUE
  /\ deadline' = clock + DEFAULT_TIMEOUT
  /\ spc' = "fetching"
  /\ UNCHANGED <<clock, aborted, sErr>>
  /\ requests' = requests + 1
  /\ UNCHANGED httpStatus
  /\ UNCHANGED <<mainVars, tabVars, pureVars>>

\* ai.js:129-145: fetch resolves with a 2xx response; clearTimeout, then
\* response.json() is awaited
ResponseOk ==
  /\ spc = "fetching"
  /\ timeoutId' = FALSE
  /\ spc' = "read_json"
  /\ UNCHANGED <<clock, deadline, aborted, sErr>>
  /\ httpStatus' = "ok"
  /\ UNCHANGED requests
  /\ UNCHANGED <<mainVars, tabVars, pureVars>>

\* ai.js:129-140: fetch resolves with a non-2xx response; clearTimeout, then
\* response.text() is awaited
ResponseNotOk ==
  /\ spc = "fetching"
  /\ timeoutId' = FALSE
  /\ spc' = "read_error_text"
  /\ UNCHANGED <<clock, deadline, aborted, sErr>>
  /\ httpStatus' = "notok"
  /\ UNCHANGED requests
  /\ UNCHANGED <<mainVars, tabVars, pureVars>>

\* a variant that sends the request again after a network error
RequestFails_Retry ==
  /\ spc = "fetching"
  /\ timeoutId' = FALSE
  /\ spc' = IF requests < 2 THEN "get_options" ELSE "rejected"
  /\ sErr' = IF requests < 2 THEN sErr ELSE ErrNetwork
  /\ httpStatus' = "neterr"
  /\ UNCHANGED requests
  /\ UNCHANGED <<clock, deadline, aborted>>
  /\ UNCHANGED <<mainVars, tabVars, pureVars>>

\* ai.js:129, 344-349: fetch rejects with a network error
RequestFails ==
  /\ spc = "fetching"
  /\ timeoutId' = FALSE
  /\ spc' = "rejected"
  /\ sErr' = ErrNetwork
  /\ UNCHANGED <<clock, deadline, aborted>>
  /\ httpStatus' = "neterr"
  /\ UNCHANGED requests
  /\ UNCHANGED <<mainVars, tabVars, pureVars>>

\* ai.js:115, 344-348: the timer fires, controller.abort() makes the pending
\* fetch reject with an AbortError, rethrown as "Request timed out"
AbortTimerFires ==
  /\ timeoutId
  /\ clock >= deadline
  /\ timeoutId' = FALSE
  /\ aborted' = TRUE
  /\ IF spc = "fetching"
       THEN spc' = "rejected" /\ sErr' = ErrTimeout
       ELSE UNCHANGED <<spc, sErr>>
  /\ UNCHANGED <<clock, deadline>>
  /\ UNCHANGED <<requests, httpStatus>>
  /\ UNCHANGED <<mainVars, tabVars, pureVars>>

\* ai.js:140-141, 344-349: the error body has been read
ErrorTextRead(e) ==
  /\ spc = "read_error_text"
  /\ spc' = "rejected"
  /\ sErr' = e
  /\ UNCHANGED <<clock, timeoutId, deadline, aborted>>
  /\ UNCHANGED <<requests, httpStatus>>
  /\ UNCHANGED <<mainVars, tabVars, pureVars>>

\* ai.js:145-343: the body has been read and parsed; the reply is
\* normalized into a record
JsonRead ==
  /\ spc = "read_json"
  /\ spc' = "resolved"
  /\ UNCHANGED <<clock, timeoutId, deadline, aborted, sErr>>
  /\ UNCHANGED <<requests, httpStatus>>
  /\ UNCHANGED <<mainVars, tabVars, pureVars>>

\* ai.js:145-146, 344-349: reading or parsing the body throws
JsonFails ==
  /\ spc = "read_json"
  /\ spc' = "rejected"
  /\ sErr' = ErrMalformed
  /\ UNCHANGED <<clock, timeoutId, deadline, aborted>>
  /\ UNCHANGED <<requests, httpStatus>>
  /\ UNCHANGED <<mainVars, tabVars, pureVars>>

\* time passes; a pending timer fires when it is due, before time goes on
Tick ==
  /\ clock < MaxClock
  /\ ~(timeoutId /\ clock >= deadline)
  /\ clock' = IF timeoutId THEN Min(clock + TickMs, deadline) ELSE clock + TickMs
  /\ UNCHANGED <<spc, timeoutId, deadline, aborted, sErr>>
  /\ UNCHANGED <<requests, httpStatus>>
  /\ UNCHANGED <<mainVars, tabVars, pureVars>>

NextAI ==
  \/ SummarizePolicyCall
  \/ CheckApiKey
  \/ SendRequest
  \/ ResponseOk
  \/ ResponseNotOk
  \/ RequestFails
  \/ AbortTimerFires
  \/ \E e \in {ErrHttp, ErrHttpKeyText, ErrNetwork} : ErrorTextRead(e)
  \/ JsonRead
  \/ JsonFails
  \/ Tick

SpecAI == Init /\ [][NextAI]_vars

\* the provider call is issued and has not settled
ProviderCallPending == spc \in {"fetching", "read_error_text", "read_json"}

\* C8: no provider call is pending after its timeout has elapsed: a call
\* whose reply has not been fully received and read by then has been aborted
\* and summarizePolicy has failed with "Request timed out".
C8_NoCallPendingPastTimeout ==
  ProviderCallPending => clock <= deadline

\* C11: a summarizePolicy call issues at most one provider request and never
\* retries; a non-2xx status leaves it reading the error body and then
\* rejected with an error that carries the status or the cause, a network
\* error rejects it with the cause.
C11_SingleRequestNoRetry ==
  /\ requests <= 1
  /\ httpStatus = "notok" =>
       /\ spc \in {"read_error_text", "rejected"}
       /\ spc = "rejected" => sErr \in {ErrHttp, ErrHttpKeyText, ErrNetwork}
  /\ httpStatus = "neterr" => spc = "rejected" /\ sErr = ErrNetwork
  /\ spc = "resolved" => httpStatus = "ok"

C11_Witness ==
  /\ requests = 1
  /\ httpStatus = "notok"
  /\ spc = "rejected"
  /\ sErr = ErrHttp

----------------------------------------------------------------------------
\* Normalization of the provider reply (ai.js:145-343) as pure functions.
\*
\* JavaScript values are records tagged with their type.  Numbers are kept in
\* tenths (n = 76 is 7.6), so that rounding has something to round.  A string
\* is a sequence of atoms: single characters, and atoms that stand for a run
\* of characters whose only relevant property is what the code's parsers and
\* patterns make of it (the text of a JSON value, a code fence, a "Score: n"
\* phrase, a heading word).

Null == [t |-> "null"]
NaN == [t |-> "NaN"]
Num(n) == [t |-> "number", n |-> n]
Bool(b) == [t |-> "boolean", b |-> b]
Str(s) == [t |-> "string", s |-> s]
Obj(f) == [t |-> "object", f |-> f]
Arr(a) == [t |-> "array", a |-> a]
\* an object whose toString is not callable: String() and Number() throw
Hostile == [t |-> "object", f |-> [x \in {"toString"} |-> Num(10)]]

Ch(c) == [k |-> c, v |-> Undef]
\* the text JSON.stringify gives for the value v
Json(v) == [k |-> "json", v |-> v]
\* the phrase "Score: n/10"
ScorePhrase(n) == [k |-> "score", v |-> Num(n * 10)]

\* JavaScript typeof, with arrays told apart as Array.isArray does
TypeOf(v) == IF v.t = "NaN" THEN "number" ELSE v.t

\* JavaScript truthiness
Truthy(v) ==
  CASE v.t \in {"undefined", "null", "NaN"} -> FALSE
    [] v.t = "number" -> v.n # 0
    [] v.t = "boolean" -> v.b
    [] v.t = "string" -> v.s # <<>>
    [] OTHER -> TRUE

\* property access o.name, and o?.name on a value without properties
Get(o, name) ==
  IF o.t = "object" /\ name \in DOMAIN o.f THEN o.f[name] ELSE Undef

\* the characters \s matches ("nbsp" is U+00A0)
Spaces == {" ", "\t", "\r", "\f", "\n", "nbsp"}
IsSpace(a) == a.k \in Spaces
\* the characters [a-zA-Z] matches
IsLetter(a) == a.k = "a"

Last(s) == s[Len(s)]
Front(s) == SubSeq(s, 1, Len(s) - 1)

RECURSIVE TrimStart(_)
TrimStart(s) ==
  IF s # <<>> /\ IsSpace(Head(s)) THEN TrimStart(Tail(s)) ELSE s

RECURSIVE TrimEnd(_)
TrimEnd(s) ==
  IF s # <<>> /\ IsSpace(Last(s)) THEN TrimEnd(Front(s)) ELSE s

\* String.prototype.trim
Trim(s) == TrimEnd(TrimStart(s))

RECURSIVE DropLetters(_)
DropLetters(s) ==
  IF s # <<>> /\ IsLetter(Head(s)) THEN DropLetters(Tail(s)) ELSE s

\* the first replace of stripCodeFences on a text that starts with a fence:
\* the fence, the letters after it and one line break go
DropOpenFence(s) ==
  LET u == DropLetters(Tail(s))
  IN IF u # <<>> /\ Head(u).k = "\n" THEN Tail(u) ELSE u

\* the second replace of stripCodeFences: a fence at the end goes
DropCloseFence(s) ==
  IF s # <<>> /\ Last(s).k = "fence" THEN Front(s) ELSE s

stripCodeFences(v) ==
  IF v.t # "string" THEN v
  ELSE LET u == Trim(v.s)
       IN IF u # <<>> /\ Head(u).k = "fence" /\ Last(u).k = "fence"
            THEN Str(Trim(DropCloseFence(DropOpenFence(u))))
            ELSE Str(u)

\* JSON.parse: the text is one JSON value with optional white space around
\* it, anything else throws
JsonParse(s) ==
  LET u == Trim(s)
  IN IF Len(u) = 1 /\ u[1].k = "json"
       THEN [ok |-> TRUE, v |-> u[1].v]
       ELSE [ok |-> FALSE, v |-> Undef]

\* the atom holds a "{" (a "}"): a stray brace, or the text of a JSON object
HasOpenBrace(a) == a.k = "{" \/ (a.k = "json" /\ a.v.t = "object")
HasCloseBrace(a) == a.k = "}" \/ (a.k = "json" /\ a.v.t = "object")

\* text.indexOf("{") and text.lastIndexOf("}") as atom positions, 0 for -1
FirstBrace(s) ==
  LET I == {i \in 1..Len(s) : HasOpenBrace(s[i])}
  IN IF I = {} THEN 0 ELSE CHOOSE i \in I : \A j \in I : i <= j
LastBrace(s) ==
  LET I == {i \in 1..Len(s) : HasCloseBrace(s[i])}
  IN IF I = {} THEN 0 ELSE CHOOSE i \in I : \A j \in I : i >= j

\* the segment-to-string map of the array branch
SegmentText(seg) ==
  IF seg.t = "string" THEN seg.s
  ELSE IF Get(seg, "text").t = "string" THEN Get(seg, "text").s
  ELSE IF Get(seg, "content").t = "string" THEN Get(seg, "content").s
  ELSE <<>>

RECURSIVE JoinSegments(_)
JoinSegments(a) ==
  IF a = <<>> THEN <<>> ELSE SegmentText(Head(a)) \o JoinSegments(Tail(a))

\* the string branch of tryParseJsonFromContent
ParseJsonText(v) ==
  LET u == stripCodeFences(v).s
      whole == JsonParse(u)
      fb == FirstBrace(u)
      lb == LastBrace(u)
      candidate == JsonParse(SubSeq(u, fb, lb))
  IN IF whole.ok THEN whole.v
     ELSE IF fb # 0 /\ lb # 0 /\ (lb > fb \/ (lb = fb /\ u[fb].k = "json"))
             /\ candidate.ok
       THEN candidate.v
       ELSE Null

RECURSIVE tryParseJsonFromContent(_)
tryParseJsonFromContent(content) ==
  CASE content.t = "array" ->
         tryParseJsonFromContent(Str(JoinSegments(content.a)))
    [] content.t = "object" ->
         LET inner == IF Get(content, "content").t = "string"
                        THEN Get(content, "content")
                      ELSE IF Get(content, "text").t = "string"
                        THEN Get(content, "text")
                      ELSE Null
         IN IF Truthy(inner) THEN tryParseJsonFromContent(inner) ELSE content
    [] content.t = "string" -> ParseJsonText(content)
    [] OTHER -> Null

Max(a, b) == IF a > b THEN a ELSE b

\* Math.round on tenths: the nearest integer, a half goes up
Round(n) == (n + 5) \div 10

\* a variant that cuts the fraction off
clampScore_Truncate(score) ==
  IF score.t = "NaN" THEN Num(50)
  ELSE Num(10 * Max(0, Min(10, score.n \div 10)))

\* ai.js:204-207; the argument is a number or NaN, the result is in tenths
clampScore(score) ==
  IF score.t = "NaN" THEN Num(50)
  ELSE Num(10 * Max(0, Min(10, Round(score.n))))

\* String(v) and Number(v) throw on an object they cannot make a primitive of
Throws(v) == v.t = "object" /\ "toString" \in DOMAIN v.f

RECURSIVE StringOf(_)
\* String(v)
StringOf(v) ==
  CASE v.t = "string" -> v.s
    [] v.t = "number" -> <<Json(v)>>
    [] v.t = "array" ->
         IF v.a = <<>> THEN <<>>
         ELSE LET h == IF Head(v.a).t \in {"null", "undefined"}
                         THEN <<>> ELSE StringOf(Head(v.a))
              IN IF Len(v.a) = 1 THEN h
                 ELSE h \o <<Ch(",")>> \o StringOf(Arr(Tail(v.a)))
    [] v.t = "object" -> <<Ch("[object Object]")>>
    [] OTHER -> <<Ch("a")>>

\* Number(v)
NumberOf(v) ==
  LET OfText(s) ==
        LET u == Trim(s)
        IN IF u = <<>> THEN Num(0)
           ELSE IF Len(u) = 1 /\ u[1].k = "json" /\ u[1].v.t = "number"
             THEN u[1].v
             ELSE NaN
  IN CASE v.t \in {"number", "NaN"} -> v
       [] v.t = "null" -> Num(0)
       [] v.t = "boolean" -> IF v.b THEN Num(10) ELSE Num(0)
       [] v.t = "string" -> OfText(v.s)
       [] v.t = "array" -> OfText(StringOf(v))
       [] OTHER -> NaN

\* ai.js:327  the word cap of the explanation
MAX_WORDS == 8

RECURSIVE StripDotsAndSpaces(_)
\* replace(/[\.\s]+$/g, "")
StripDotsAndSpaces(s) ==
  IF s # <<>> /\ (IsSpace(Last(s)) \/ Last(s).k = ".")
    THEN StripDotsAndSpaces(Front(s)) ELSE s

RECURSIVE SplitOn(_, _, _)
\* the pieces of s between the atoms of the kinds seps, cur being the piece
\* that is open
SplitOn(s, cur, seps) ==
  IF s = <<>> THEN <<cur>>
  ELSE IF Head(s).k \in seps THEN <<cur>> \o SplitOn(Tail(s), <<>>, seps)
  ELSE SplitOn(Tail(s), Append(cur, Head(s)), seps)

\* filter(Boolean) on an array of strings
NonEmpty(ss) == SelectSeq(ss, LAMBDA w : w # <<>>)

\* explanation.split(/\s+/).filter(Boolean)
Words(s) == NonEmpty(SplitOn(s, <<>>, Spaces))

RECURSIVE JoinWith(_, _)
\* Array.prototype.join
JoinWith(ss, sep) ==
  IF ss = <<>> THEN <<>>
  ELSE IF Len(ss) = 1 THEN ss[1]
  ELSE ss[1] \o <<sep>> \o JoinWith(Tail(ss), sep)

\* ai.js:325  trim, then drop the trailing periods and white space
ExplanationTrimmed(s) == StripDotsAndSpaces(Trim(s))

\* ai.js:326-327  more than 8 words: the first 8, joined by single spaces
ExplanationCapped(s) ==
  IF Len(Words(s)) > MAX_WORDS
    THEN JoinWith(SubSeq(Words(s), 1, MAX_WORDS), Ch(" "))
    ELSE s

\* ai.js:328  replace(/\.$/, ""): one period at the very end goes
ExplanationStripped(s) ==
  IF s # <<>> /\ Last(s).k = "." THEN Front(s) ELSE s

\* ai.js:323-328
CleanExplanation(s) ==
  ExplanationStripped(ExplanationCapped(ExplanationTrimmed(s)))

\* ai.js:275  the two default explanations, word by word
DetectedExplanation ==
  <<Ch("Detected"), Ch(" "), Ch("score"), Ch(" "), Ch("from"), Ch(" "),
    Ch("response"), Ch(".")>>
NeutralExplanation ==
  <<Ch("No"), Ch(" "), Ch("explicit"), Ch(" "), Ch("score"), Ch(" "),
    Ch("provided;"), Ch(" "), Ch("using"), Ch(" "), Ch("neutral"), Ch(" "),
    Ch("score"), Ch(".")>>

\* ai.js:211  text.split(/\r?\n/).map(trim).filter(Boolean)
Lines(s) ==
  LET ls == SplitOn(s, <<>>, {"\n"})
  IN NonEmpty([i \in 1..Len(ls) |-> Trim(ls[i])])

\* the least member of a non-empty set of positions, 0 for none
First(I) == IF I = {} THEN 0 ELSE CHOOSE i \in I : \A j \in I : i <= j

\* ai.js:214-220  one of the score patterns matches in the line: the line
\* holds a "Score: n/10" phrase
ScorePosition(line) == First({i \in 1..Len(line) : line[i].k = "score"})

\* [a-zA-Z\u00C0-\u017F] matches somewhere in the atom
HasLetter(a) ==
  /\ a.k \notin Spaces \cup {".", ",", "{", "}", "#", "fence"}
  /\ ~(a.k = "json" /\ a.v.t = "number")

\* ai.js:242-243  what follows the score on its line: the prefix up to the
\* first ":" goes, then the number when the text starts with one.  The
\* atoms that hold a ":" are the score phrase and the Summary heading.
AfterNumber(line) ==
  LET c == First({i \in 1..Len(line) : line[i].k \in {"score", "Summary:"}})
  IN Trim(SubSeq(line, c + 1, Len(line)))

\* ai.js:248  the explanation keywords
HasReasonWord(line) == \E i \in 1..Len(line) : line[i].k = "because"

\* ai.js:261  the lines that end the Summary section
EndsSection(line) ==
  \/ Len(line) > 1 /\ line[1].k = "#" /\ IsSpace(line[2])
  \/ line[1].k = "score"
  \/ line[1].k = "Rights"

RECURSIVE Section(_)
\* ai.js:258-266  the lines up to the first that ends the section
Section(ls) ==
  IF ls = <<>> \/ EndsSection(Head(ls)) THEN <<>>
  ELSE <<Head(ls)>> \o Section(Tail(ls))

\* ai.js:209-281
extractFromUnstructured(content) ==
  LET txt == stripCodeFences(IF content.t = "string" THEN content ELSE Str(<<>>)).s
      lines == Lines(txt)
      scoreLineIndex == First({i \in 1..Len(lines) : ScorePosition(lines[i]) # 0})
      scoreLine == lines[scoreLineIndex]
      detectedScore ==
        IF scoreLineIndex = 0 THEN Undef
        ELSE clampScore(scoreLine[ScorePosition(scoreLine)].v)
      found ==
        IF scoreLineIndex = 0 THEN <<>>
        ELSE IF \E i \in 1..Len(AfterNumber(scoreLine)) :
                  HasLetter(AfterNumber(scoreLine)[i])
          THEN AfterNumber(scoreLine)
        ELSE IF scoreLineIndex < Len(lines)
                /\ HasReasonWord(lines[scoreLineIndex + 1])
          THEN lines[scoreLineIndex + 1]
        ELSE <<>>
      headingIdx == First({i \in 1..Len(lines) : lines[i][1].k = "Summary:"})
      section ==
        IF headingIdx = 0 THEN <<>>
        ELSE Trim(JoinWith(Section(SubSeq(lines, headingIdx + 1, Len(lines))),
                           Ch("\n")))
      body ==
        Trim(JoinWith(SelectSeq([i \in 1..Len(lines) |->
                                   IF i = scoreLineIndex THEN <<>> ELSE lines[i]],
                                LAMBDA l : l # <<>>),
                      Ch("\n")))
      summaryText ==
        IF section # <<>> THEN section
        ELSE IF body # <<>> THEN body ELSE txt
  IN Obj([privacy_score |-> IF detectedScore = Undef THEN Num(50)
                            ELSE detectedScore,
          score_explanation |->
            Str(IF found # <<>> THEN found
                ELSE IF detectedScore # Undef THEN DetectedExplanation
                ELSE NeutralExplanation),
          summary |-> Str(summaryText)])

----------------------------------------------------------------------------
\* The replies the normalization is checked on.

\* scores range over -MaxTenths/10 .. MaxTenths/10 in steps of a tenth
MaxTenths == 140
\* unstructured texts have up to MaxLines lines
MaxLines == 3

\* marks a property the object does not have
Absent == [t |-> "absent"]
FieldNames == {"privacy_score", "score_explanation", "summary", "content", "text"}

\* the object with the properties of r that are not Absent
MakeObj(r) == Obj([x \in {n \in FieldNames : r[n] # Absent} |-> r[x]])

Record(sc, ex, su) ==
  MakeObj([privacy_score |-> sc, score_explanation |-> ex, summary |-> su,
           content |-> Absent, text |-> Absent])

Letter == Ch("a")
Space == Ch(" ")
Period == Ch(".")
Newline == Ch("\n")
Fence == Ch("fence")

\* a well-formed record and a second one with other values
GoodRecord == Record(Num(30), Str(<<Letter, Space, Letter>>), Str(<<Letter>>))
OtherRecord == Record(Num(90), Str(<<Letter>>), Str(<<Letter, Period>>))

\* the numbers from -k to k tenths, and the strings that spell them
NumericScores(k) ==
  {Num(n) : n \in (0 - k)..k} \cup {Str(<<Json(Num(n))>>) : n \in (0 - k)..k}

SampleScores ==
  {Absent, Null, Num(-30), Num(76), Num(70), Num(140), Str(<<Json(Num(76))>>),
   Str(<<Letter>>), Str(<<>>), Bool(TRUE), Hostile}
SampleExplanations ==
  {Absent, Str(<<Letter, Space, Letter, Period, Space>>), Num(30)}
SampleSummaries ==
  {Absent, Str(<<Letter>>), Str(<<Json(OtherRecord)>>), Hostile}

\* objects of the direct shape, complete or not
DirectObjects(k) ==
  {Record(sc, ex, su) : sc \in SampleScores, ex \in SampleExplanations,
                        su \in SampleSummaries}
    \cup {Record(sc, Str(<<Letter>>), Str(<<Letter>>)) : sc \in NumericScores(k)}

\* objects that carry a content or text property, with or without the
\* fields of a record
WrappedObjects ==
  {MakeObj([privacy_score |-> sc,
            score_explanation |-> IF sc = Absent THEN Absent ELSE Str(<<Letter>>),
            summary |-> IF sc = Absent THEN Absent ELSE Str(<<Letter>>),
            content |-> co, text |-> tx]) :
     sc \in {Absent, Num(30)},
     co \in {Absent, Str(<<Letter>>), Str(<<>>), Str(<<Json(OtherRecord)>>), Num(10)},
     tx \in {Absent, Str(<<Letter>>), Str(<<Json(OtherRecord)>>)}}

\* the values whose JSON text the reply strings hold
JsonValues ==
  {GoodRecord, Obj([content |-> Str(<<Json(GoodRecord)>>)]), Num(70), Num(0),
   Null, Arr(<<Num(10), Num(20)>>), Obj(<<>>), Str(<<Letter>>)}

\* a string that holds the JSON text of j: alone, in a code fence, inside
\* prose, twice, or followed by a stray brace
JsonTexts ==
  UNION {{ Str(<<Json(j)>>),
           Str(<<Fence, Letter, Newline, Json(j), Newline, Fence>>),
           Str(<<Letter, Space, Json(j), Space, Letter, Period>>),
           Str(<<Json(j), Space, Json(j)>>),
           Str(<<Json(j), Ch("}")>>) } : j \in JsonValues}

\* the lines of the unstructured texts
TextLines ==
  { <<Letter, Space, Letter>>,
    <<ScorePhrase(9), Space, Letter>>,
    <<Letter, Space, ScorePhrase(42)>>,
    <<Letter, Space, Ch("because"), Period>>,
    <<Ch("Summary:")>>,
    <<Ch("#"), Space, Letter>>,
    <<Ch("Rights")>> }

RECURSIVE TextsOf(_)
\* the texts of exactly n lines
TextsOf(n) ==
  IF n = 1 THEN TextLines
  ELSE {l \o <<Newline>> \o t : l \in TextLines, t \in TextsOf(n - 1)}

\* the texts of up to m lines, and three more
PlainTexts(m) ==
  {Str(t) : t \in UNION {TextsOf(n) : n \in 1..m}}
    \cup {Str(<<Fence, Newline, Letter, Newline, Fence>>),
          Str(<<Space, Letter, Space, Newline>>),
          Str(<<Ch("{"), Letter>>)}

\* replies without usable content
EmptyContents ==
  {Undef, Null, Str(<<>>), Num(420), Num(0), Bool(TRUE), Bool(FALSE), Arr(<<>>)}

SegmentArrays ==
  {Arr(<<Str(<<Fence, Newline>>), Obj([text |-> Str(<<Json(GoodRecord)>>)]),
         Obj([content |-> Str(<<Newline, Fence>>)]), Num(10)>>),
   Arr(<<Str(<<Letter>>), Null>>)}

Contents(m, k) ==
  DirectObjects(k) \cup WrappedObjects \cup JsonTexts \cup PlainTexts(m)
    \cup EmptyContents \cup SegmentArrays

\* reasoning_content || tool_content || content_text, when one is set
AltContents == {Str(<<Json(OtherRecord)>>), Str(<<Letter>>)}

\* the replies with texts of up to m lines and scores up to k tenths
Messages(m, k) ==
  {[content |-> c, reasoning_content |-> Undef] : c \in Contents(m, k)}
    \cup {[content |-> c, reasoning_content |-> a] :
            c \in EmptyContents \cup {Str(<<Letter, Space, Letter>>), GoodRecord},
            a \in AltContents}

----------------------------------------------------------------------------
\* summarizePolicy from the reply to the returned record, ai.js:283-343

\* a ?? b
Coalesce(a, b) == IF a.t \in {"undefined", "null"} THEN b ELSE a

\* a || b
OrElse(a, b) == IF Truthy(a) THEN a ELSE b

\* ai.js:300-303  a parsed object that is still a wrapper is parsed again
Unwrapped(p) ==
  IF p.t = "object" /\ Truthy(Get(p, "content")) /\ Get(p, "content").t = "string"
    THEN OrElse(tryParseJsonFromContent(Get(p, "content")), p)
    ELSE p

\* ai.js:306-308  a parsed array is taken as segments
Resegmented(p) ==
  IF p.t = "array"
    THEN OrElse(tryParseJsonFromContent(p), extractFromUnstructured(Str(StringOf(p))))
    ELSE p

\* ai.js:310-320  the score before it is clamped
RecoveredScore(p) ==
  LET score == Get(p, "privacy_score")
      numeric == IF score.t = "string" /\ NumberOf(score).t # "NaN"
                   THEN NumberOf(score) ELSE score
      maybe == tryParseJsonFromContent(
                 OrElse(Get(p, "summary"), OrElse(Get(p, "text"), Str(<<>>))))
  IN IF TypeOf(numeric) # "number" /\ Truthy(maybe)
        /\ TypeOf(Get(maybe, "privacy_score")) = "number"
       THEN Get(maybe, "privacy_score")
       ELSE numeric

\* a variant that takes the score as it is when it is in range
FinalScore_NoRound(score) ==
  IF NumberOf(score).t = "number" /\ NumberOf(score).n \in 0..100
    THEN NumberOf(score)
    ELSE clampScore(NumberOf(score))

\* ai.js:321
FinalScore(score) == clampScore(NumberOf(score))

\* ai.js:298-330  the closure norm: the object it returns ...
NormRecord(p0) ==
  LET p == Resegmented(Unwrapped(p0))
  IN Obj([privacy_score |-> FinalScore(RecoveredScore(p)),
          score_explanation |->
            Str(CleanExplanation(
                  StringOf(Coalesce(Get(p, "score_explanation"), Str(<<>>))))),
          summary |-> Str(StringOf(Coalesce(Get(p, "summary"), Str(<<>>))))])

\* ... and whether one of its conversions throws
NormThrows(p0) ==
  LET p == Resegmented(Unwrapped(p0))
  IN \/ Throws(RecoveredScore(p))
     \/ Throws(Get(p, "score_explanation"))
     \/ Throws(Get(p, "summary"))

\* ai.js:333-341  the checks on the record
Invalid(r) ==
  \/ Get(r, "score_explanation").t # "string"
  \/ Get(r, "summary").t # "string"
  \/ Get(r, "privacy_score").n < 0
  \/ Get(r, "privacy_score").n > 100

\* ai.js:283  parsed = tryParseJsonFromContent(rawContent)
ParseContent ==
  /\ npc = "parse"
  /\ parsed' = tryParseJsonFromContent(message.content)
  /\ npc' = IF Truthy(parsed') THEN "norm" ELSE "alt"
  /\ UNCHANGED <<message, norm>>
  /\ UNCHANGED <<mainVars, tabVars, aiVars, auxVars, explVars, textVars>>

\* ai.js:284-292  the other message fields are tried
ParseAlt ==
  /\ npc = "alt"
  /\ parsed' = IF Truthy(message.reasoning_content)
                 THEN tryParseJsonFromContent(message.reasoning_content)
                 ELSE parsed
  /\ npc' = IF Truthy(parsed') THEN "norm" ELSE "unstructured"
  /\ UNCHANGED <<message, norm>>
  /\ UNCHANGED <<mainVars, tabVars, aiVars, auxVars, explVars, textVars>>

\* a variant that rejects a reply no JSON was recovered from
Unstructured_Strict ==
  /\ npc = "unstructured"
  /\ npc' = "thrown"
  /\ UNCHANGED <<message, parsed, norm>>
  /\ UNCHANGED <<mainVars, tabVars, aiVars, auxVars, explVars, textVars>>

\* ai.js:293-295  parsed = extractFromUnstructured(rawContent)
Unstructured ==
  /\ npc = "unstructured"
  /\ parsed' = extractFromUnstructured(message.content)
  /\ npc' = "norm"
  /\ UNCHANGED <<message, norm>>
  /\ UNCHANGED <<mainVars, tabVars, aiVars, auxVars, explVars, textVars>>

\* ai.js:298-343  the record is built, checked and returned
Normalize ==
  /\ npc = "norm"
  /\ IF NormThrows(parsed) THEN npc' = "thrown" /\ norm' = norm
     ELSE IF Invalid(NormRecord(parsed)) THEN npc' = "thrown" /\ norm' = norm
     ELSE npc' = "returned" /\ norm' = NormRecord(parsed)
  /\ UNCHANGED <<message, parsed>>
  /\ UNCHANGED <<mainVars, tabVars, aiVars, auxVars, explVars, textVars>>

NextNorm == ParseContent \/ ParseAlt \/ Unstructured \/ Normalize

InitNorm ==
  /\ InitHandlers
  /\ InitAuxIdle
  /\ summaries = NoSnap
  /\ apiKey = "sk"
  /\ message \in Messages(MaxLines, MaxTenths)
  /\ parsed = Undef
  /\ norm = Undef
  /\ npc = "parse"
  /\ recovered = <<>>
  /\ explanation = <<>>
  /\ epc = "off"
  /\ html = <<>>
  /\ via = "html"
  /\ hasParser = TRUE
  /\ text = <<>>
  /\ tpc = "off"

SpecNorm == InitNorm /\ [][NextNorm]_vars

\* the call has returned a record
Returned == npc = "returned"

\* C12: every record summarizePolicy returns, whichever strategy recovered
\* it, has exactly the three fields, privacy_score an integer in 0..10,
\* score_explanation a string and summary a string.
C12_RecordWellFormed ==
  Returned =>
    /\ norm.t = "object"
    /\ DOMAIN norm.f = {"privacy_score", "score_explanation", "summary"}
    /\ norm.f.privacy_score.t = "number"
    /\ norm.f.privacy_score.n % 10 = 0
    /\ norm.f.privacy_score.n \in 0..100
    /\ norm.f.score_explanation.t = "string"
    /\ norm.f.summary.t = "string"

\* a record came out of an object whose score 7.6 is not an integer
C12_Witness ==
  /\ Returned
  /\ Get(message.content, "privacy_score") = Num(76)
  /\ norm.f.privacy_score = Num(80)

\* the score norm starts from, when it is a number or the text of one
NumericScore(p) ==
  LET score == Get(Resegmented(Unwrapped(p)), "privacy_score")
  IN IF score.t = "number" THEN score
     ELSE IF score.t = "string" /\ Len(Trim(score.s)) = 1
             /\ Trim(score.s)[1].k = "json" /\ Trim(score.s)[1].v.t = "number"
       THEN Trim(score.s)[1].v
     ELSE Undef

\* the integer nearest to n tenths, a half counted upwards
Nearest(n) ==
  CHOOSE k \in (0 - MaxTenths - 1)..(MaxTenths + 1) :
    10 * k - 5 <= n /\ n < 10 * k + 5

\* C13: for every numeric score n recovered from the reply, as a number or
\* as a numeric string, the returned privacy_score is min(10, max(0, round(n))).
C13_ScoreClamped ==
  (Returned /\ NumericScore(parsed) # Undef) =>
    norm.f.privacy_score =
      Num(10 * Min(10, Max(0, Nearest(NumericScore(parsed).n))))

\* the numeric string "-3" came out as 0
C13_Witness ==
  /\ Returned
  /\ Get(message.content, "privacy_score") = Str(<<Json(Num(-30))>>)
  /\ norm.f.privacy_score = Num(0)

\* the content is empty, absent, or neither a string nor an object, and no
\* other field of the message holds content
GenuinelyEmpty(m) ==
  /\ ~Truthy(m.reasoning_content)
  /\ \/ m.content.t \in {"undefined", "null", "number", "boolean"}
     \/ m.content.t = "string" /\ Trim(m.content.s) = <<>>

\* C15: a reply whose content is genuinely empty, absent, or neither a
\* string nor an object makes normalization fail: no record is returned.
C15_EmptyReplyRejected == GenuinelyEmpty(message) => ~Returned

\* the neutral explanation as it is returned
GenericExplanation ==
  <<Ch("No"), Ch(" "), Ch("explicit"), Ch(" "), Ch("score"), Ch(" "),
    Ch("provided;"), Ch(" "), Ch("using"), Ch(" "), Ch("neutral"), Ch(" "),
    Ch("score")>>

\* a text reply that is not empty and from which neither JSON nor a score
\* pattern is recovered
Unrecoverable(m) ==
  /\ m.content.t = "string"
  /\ stripCodeFences(m.content).s # <<>>
  /\ ~Truthy(tryParseJsonFromContent(m.content))
  /\ ~(Truthy(m.reasoning_content)
       /\ Truthy(tryParseJsonFromContent(m.reasoning_content)))
  /\ \A i \in 1..Len(m.content.s) : m.content.s[i].k # "score"

Atoms(s) == {s[i] : i \in 1..Len(s)}

\* C16: for every non-empty text reply from which neither JSON nor a score
\* pattern is recovered, normalization does not raise: it returns the
\* neutral score 5, the generic explanation, and a summary made of the
\* reply text (all its lines when it has no Summary heading).
C16_UnstructuredFallback ==
  (Unrecoverable(message) /\ npc \in {"returned", "thrown"}) =>
    /\ Returned
    /\ norm.f.privacy_score = Num(50)
    /\ norm.f.score_explanation = Str(GenericExplanation)
    /\ norm.f.summary.s # <<>>
    /\ Atoms(norm.f.summary.s) \subseteq Atoms(message.content.s)
    /\ (\A i \in 1..Len(message.content.s) : message.content.s[i].k # "Summary:")
         => norm.f.summary.s =
              JoinWith(Lines(stripCodeFences(message.content).s), Newline)

\* a two-line text without JSON or score came out as the neutral record
C16_Witness ==
  /\ Returned
  /\ message.content = Str(<<Letter, Space, Letter, Newline, Ch("Rights")>>)
  /\ norm.f.privacy_score = Num(50)
  /\ norm.f.summary = message.content

\* C17: whenever the reply content is an object that carries a numeric
\* privacy_score, the returned record is derived from that object's own
\* privacy_score and summary, whatever other field it carries.
C17_DirectObjectWins ==
  (Returned /\ message.content.t = "object"
     /\ Get(message.content, "privacy_score").t = "number") =>
    /\ norm.f.privacy_score = clampScore(Get(message.content, "privacy_score"))
    /\ norm.f.summary.s =
         StringOf(Coalesce(Get(message.content, "summary"), Str(<<>>)))

----------------------------------------------------------------------------
\* The clean-up of the explanation (ai.js:323-328), step by step, on strings
\* of up to MaxWords words.

MaxWords == 9

\* a word, and a word that ends with two periods
WordKinds == {<<Letter>>, <<Letter, Period, Period>>}

RECURSIVE WordLists(_)
\* the lists of exactly n words
WordLists(n) ==
  IF n = 0 THEN {<<>>}
  ELSE {<<w>> \o ws : w \in WordKinds, ws \in WordLists(n - 1)}

\* up to m words joined by single spaces, bare or with white space and a
\* period around them
Explanations(m) ==
  UNION {{ JoinWith(ws, Space),
           <<Newline, Space>> \o JoinWith(ws, Space) \o <<Space, Period, Space>> } :
         ws \in UNION {WordLists(n) : n \in 0..m}}

\* ai.js:325
ExplTrim ==
  /\ epc = "trim"
  /\ explanation' = ExplanationTrimmed(explanation)
  /\ epc' = "cap"
  /\ UNCHANGED recovered
  /\ UNCHANGED <<mainVars, tabVars, aiVars, auxVars, normVars, textVars>>

\* ai.js:326-327
ExplCap ==
  /\ epc = "cap"
  /\ explanation' = ExplanationCapped(explanation)
  /\ epc' = "strip"
  /\ UNCHANGED recovered
  /\ UNCHANGED <<mainVars, tabVars, aiVars, auxVars, normVars, textVars>>

\* ai.js:328
ExplStrip ==
  /\ epc = "strip"
  /\ explanation' = ExplanationStripped(explanation)
  /\ epc' = "done"
  /\ UNCHANGED recovered
  /\ UNCHANGED <<mainVars, tabVars, aiVars, auxVars, normVars, textVars>>

NextExpl == ExplTrim \/ ExplCap \/ ExplStrip

InitExpl ==
  /\ InitHandlers
  /\ InitAuxIdle
  /\ summaries = NoSnap
  /\ apiKey = "sk"
  /\ message = Undef
  /\ parsed = Undef
  /\ norm = Undef
  /\ npc = "off"
  /\ recovered \in Explanations(MaxWords)
  /\ explanation = recovered
  /\ epc = "trim"
  /\ html = <<>>
  /\ via = "html"
  /\ hasParser = TRUE
  /\ text = <<>>
  /\ tpc = "off"

SpecExpl == InitExpl /\ [][NextExpl]_vars

\* C14: the returned score_explanation has at most 8 words, is the first 8
\* words of the recovered string (up to the periods and white space at the
\* end) when that has more, and never ends with a period or white space.
C14_ExplanationBrief ==
  epc = "done" =>
    /\ Len(Words(explanation)) <= 8
    /\ Len(Words(recovered)) > 8 =>
         StripDotsAndSpaces(explanation) =
           StripDotsAndSpaces(JoinWith(SubSeq(Words(recovered), 1, 8), Space))
    /\ explanation # <<>> =>
         Last(explanation).k # "." /\ ~IsSpace(Last(explanation))

----------------------------------------------------------------------------
\* the run called summarizePolicy and saveSummary and answered with the record
Saved(p) == Succeeded(p) /\ calls[p] = 1

\* C18: after saveSummary(K, r, h) has completed, the entry of K holds r and
\* h until the next write or removal of K: with no other run on K, the
\* entry of K is the one the run saved.
C18_LastWriteWins ==
  \A p \in Procs :
    (Saved(p) /\ \A q \in Procs \ {p} : pc[q] = "idle" \/ url[q] # url[p]) =>
      /\ summaries[url[p]] # NoEntry
      /\ summaries[url[p]].summary = summary[p]
      /\ summaries[url[p]].hash = hash[p]

C20_Step ==
  \A p \in Procs :
    \* the primary distillation has yielded a text: the rendered path is
    \* taken, and a tab requested, exactly when it is shorter than 200
    /\ (pc[p] = "fetch_policy" /\ bodyText'[p] # NoText) =>
         /\ pc'[p] = "render" <=> bodyText'[p].len < 200
         /\ pc'[p] = "get_summary" <=> bodyText'[p].len >= 200
         /\ "tab" \in net'[p] <=> bodyText'[p].len < 200
    \* no tab is requested at any other point
    /\ ("tab" \notin net[p] /\ "tab" \in net'[p]) => pc[p] = "fetch_policy"
    \* without the rendered path the primary text stays and is the one
    \* fingerprinted
    /\ (bodyText[p] # NoText /\ "tab" \notin net[p]) =>
         /\ bodyText'[p] = bodyText[p]
         /\ hash'[p] \in {NoHash, hashText(bodyText[p])}

\* C20: the rendered-page path is taken exactly when the primary distillation
\* yields fewer than 200 characters; with 200 or more no background tab is
\* created and the primary text is the one fingerprinted.
C20_RenderedPathIffShort == [][C20_Step]_vars

\* one run went through the rendered page, another fingerprinted a primary
\* text of 200 characters without a tab
C20_Witness ==
  \E p, q \in Procs :
    /\ "tab" \in net[p] /\ LookedUp(p)
    /\ "tab" \notin net[q] /\ LookedUp(q)
    /\ bodyText[q].len = 200
    /\ hash[q] = hashText(bodyText[q])

----------------------------------------------------------------------------
\* Distillation of the policy text, part_004:103-116 and 138-139, on strings
\* of up to MaxChars characters.

MaxChars == 4

\* an HTML tag, which the parser drops from the text content
Tag == Ch("<p>")
TextChars == {Letter, Space, Ch("\t"), Newline, Ch("nbsp")}

\* the characters [\t\f\r ] matches
IsBlank(a) == a.k \in {"\t", "\f", "\r", " "}

RECURSIVE DropBlanks(_)
DropBlanks(s) ==
  IF s # <<>> /\ IsBlank(Head(s)) THEN DropBlanks(Tail(s)) ELSE s

RECURSIVE CollapseBlanks(_)
\* replace(/[\t\f\r ]+/g, " ")
CollapseBlanks(s) ==
  IF s = <<>> THEN <<>>
  ELSE IF IsBlank(Head(s)) THEN <<Space>> \o CollapseBlanks(DropBlanks(s))
  ELSE <<Head(s)>> \o CollapseBlanks(Tail(s))

RECURSIVE CollapseBreaks(_)
\* replace(/\s*\n\s*/g, "\n"): a run of white space that holds a line break
\* becomes one line break, a run without one stays
CollapseBreaks(s) ==
  IF s = <<>> THEN <<>>
  ELSE IF IsSpace(Head(s))
    THEN LET run == SubSeq(s, 1, Len(s) - Len(TrimStart(s)))
         IN (IF Newline \in Atoms(run) THEN <<Newline>> ELSE run)
              \o CollapseBreaks(TrimStart(s))
  ELSE <<Head(s)>> \o CollapseBreaks(Tail(s))

\* part_004:114-116
normalizeWhitespace(s) == Trim(CollapseBreaks(CollapseBlanks(s)))

\* doc.body.textContent: the markup without its tags
TextContent(s) == SelectSeq(s, LAMBDA a : a # Tag)

RECURSIVE StringsOf(_, _)
\* the strings of exactly n characters of the set chars
StringsOf(chars, n) ==
  IF n = 0 THEN {<<>>}
  ELSE {<<c>> \o s : c \in chars, s \in StringsOf(chars, n - 1)}

\* the markups and the page texts of up to m characters
Markups(m) == UNION {StringsOf(TextChars \cup {Tag}, n) : n \in 0..m}
PageTexts(m) == UNION {StringsOf(TextChars, n) : n \in 0..m}

\* part_004:103-109  extractBodyTextFromHTML up to the whitespace clean-up:
\* empty markup gives "", without DOMParser the markup is returned as it is
ExtractBodyText ==
  /\ tpc = "extract"
  /\ IF html = <<>> THEN text' = <<>> /\ tpc' = "distilled"
     ELSE IF ~hasParser THEN text' = html /\ tpc' = "distilled"
     ELSE text' = TextContent(html) /\ tpc' = "blanks"
  /\ UNCHANGED <<html, via, hasParser>>
  /\ UNCHANGED <<mainVars, tabVars, aiVars, auxVars, normVars, explVars>>

\* part_004:115  the first replace
ReplaceBlanks ==
  /\ tpc = "blanks"
  /\ text' = CollapseBlanks(text)
  /\ tpc' = "breaks"
  /\ UNCHANGED <<html, via, hasParser>>
  /\ UNCHANGED <<mainVars, tabVars, aiVars, auxVars, normVars, explVars>>

\* part_004:115  the second replace
ReplaceBreaks ==
  /\ tpc = "breaks"
  /\ text' = CollapseBreaks(text)
  /\ tpc' = "trim"
  /\ UNCHANGED <<html, via, hasParser>>
  /\ UNCHANGED <<mainVars, tabVars, aiVars, auxVars, normVars, explVars>>

\* a variant that leaves the ends as they are
TrimText_Skip ==
  /\ tpc = "trim"
  /\ text' = text
  /\ tpc' = "distilled"
  /\ UNCHANGED <<html, via, hasParser>>
  /\ UNCHANGED <<mainVars, tabVars, aiVars, auxVars, normVars, explVars>>

\* part_004:115  trim; the text is what hashText and summarizePolicy get
TrimText ==
  /\ tpc = "trim"
  /\ text' = Trim(text)
  /\ tpc' = "distilled"
  /\ UNCHANGED <<html, via, hasParser>>
  /\ UNCHANGED <<mainVars, tabVars, aiVars, auxVars, normVars, explVars>>

NextText == ExtractBodyText \/ ReplaceBlanks \/ ReplaceBreaks \/ TrimText

InitText ==
  /\ InitHandlers
  /\ InitAuxIdle
  /\ summaries = NoSnap
  /\ apiKey = "sk"
  /\ message = Undef
  /\ parsed = Undef
  /\ norm = Undef
  /\ npc = "off"
  /\ recovered = <<>>
  /\ explanation = <<>>
  /\ epc = "off"
  /\ \/ via = "html" /\ html \in Markups(MaxChars) /\ hasParser \in BOOLEAN
        /\ text = <<>> /\ tpc = "extract"
     \/ via = "page" /\ html \in PageTexts(MaxChars) /\ hasParser = FALSE
        /\ text = html /\ tpc = "blanks"

SpecText == InitText /\ [][NextText]_vars

\* the text went through normalizeWhitespace
Normalized == via = "page" \/ hasParser \/ html = <<>>

\* distilling the text again returns it unchanged
Stable(s) == normalizeWhitespace(s) = s

NoSpaceAtEnds(s) == s # <<>> => ~IsSpace(Head(s)) /\ ~IsSpace(Last(s))

NoDoubleBreak(s) ==
  \A i \in 1..(Len(s) - 1) : ~(s[i] = Newline /\ s[i + 1] = Newline)

CACHE_TTL_MS == 86400000
\* Date.now() advances in steps of DayTickMs up to MaxDateNow
DayTickMs == 43200000
MaxDateNow == 86400000

\* variant: an entry that is exactly 24 hours old is still served
Fresh_AtMost(e, t) == e # NoEntry /\ t - e.ts <= CACHE_TTL_MS

\* part_000:19  `cached && now - cached.ts < CACHE_TTL_MS`
Fresh(e, t) == e # NoEntry /\ t - e.ts < CACHE_TTL_MS

\* part_000:12-23: the call up to its first await.  Calls are numbered in the
\* order they start.
LookupStart(c, d) ==
  /\ lpc[c] = "idle"
  /\ IF c = 1 THEN TRUE ELSE lpc[c - 1] # "idle"
  /\ ldomain' = [ldomain EXCEPT ![c] = d]
  /\ IF d = <<>>
       THEN /\ lpc' = [lpc EXCEPT ![c] = "done"]
            /\ loutcome' = [loutcome EXCEPT ![c] = "empty"]
            /\ UNCHANGED <<lnow, lcached, lrequests, lresult>>
       ELSE LET e == cache[CleanDomain(d)]
            IN /\ lnow' = [lnow EXCEPT ![c] = dateNow]
               /\ lcached' = [lcached EXCEPT ![c] = e]
               /\ IF Fresh(e, dateNow)
                    THEN /\ lresult' = [lresult EXCEPT ![c] = e.result]
                         /\ loutcome' = [loutcome EXCEPT ![c] = "hit"]
                         /\ lpc' = [lpc EXCEPT ![c] = "done"]
                         /\ UNCHANGED lrequests
                    ELSE /\ lrequests' = [lrequests EXCEPT ![c] = @ + 1]
                         /\ lpc' = [lpc EXCEPT ![c] = "fetching"]
                         /\ UNCHANGED <<lresult, loutcome>>
  /\ UNCHANGED <<cache, dateNow>>
  /\ UNCHANGED <<coreVars, detectVars, secretVars>>

\* cache.set(cleanDomain, { ts: now, result }) and return result
LookupReturn(c, how, r) ==
  /\ lpc[c] = "fetching"
  /\ cache' = [cache EXCEPT ![CleanDomain(ldomain[c])] = [ts |-> lnow[c], result |-> r]]
  /\ lresult' = [lresult EXCEPT ![c] = r]
  /\ loutcome' = [loutcome EXCEPT ![c] = how]
  /\ lpc' = [lpc EXCEPT ![c] = "done"]
  /\ UNCHANGED <<dateNow, ldomain, lnow, lcached, lrequests>>
  /\ UNCHANGED <<coreVars, detectVars, secretVars>>

\* part_000:24-27: the search answers with a status that is not ok
LookupNotOk(c) == LookupReturn(c, "notok", NullResult)

\* part_000:28-40: the reply is read; a service with a rating gives a
\* result, none gives null
LookupJson(c, r) == LookupReturn(c, "json", r)

\* part_000:41-44: fetch or res.json() rejects
LookupThrows(c) == LookupReturn(c, "throw", NullResult)

\* time passes
DayTick ==
  /\ dateNow + DayTickMs <= MaxDateNow
  /\ dateNow' = dateNow + DayTickMs
  /\ UNCHANGED <<cache, lpc, ldomain, lnow, lcached, lrequests, loutcome, lresult>>
  /\ UNCHANGED <<coreVars, detectVars, secretVars>>

NextTosdr ==
  \/ \E c \in Lookups, d \in Domains : LookupStart(c, d)
  \/ \E c \in Lookups : LookupNotOk(c)
  \/ \E c \in Lookups, r \in TosdrResults : LookupJson(c, r)
  \/ \E c \in Lookups : LookupThrows(c)
  \/ DayTick

InitTosdr ==
  /\ InitHandlers
  /\ summaries = NoSnap
  /\ apiKey = "sk"
  /\ InitPureIdle
  /\ InitAuxIdle

SpecTosdr == InitTosdr /\ [][NextTosdr]_vars

\* the call has passed the cache check of part_000:19
Checked(c) == lpc[c] # "idle" /\ ldomain[c] # <<>>
SameDomain(c, e) == CleanDomain(ldomain[c]) = CleanDomain(ldomain[e])

\* C25 as stated: a call for a domain that starts less than 24 hours after
\* an earlier call for that domain (leading "www." stripped) issues no
\* request and returns what the earlier call returned; a call that starts 24
\* hours or more after every earlier call issues a request.
C25_NoRequestWithin24h ==
  \A c, e \in Lookups :
    (c < e /\ Checked(c) /\ Checked(e) /\ SameDomain(c, e)
       /\ lnow[e] - lnow[c] < CACHE_TTL_MS) =>
      /\ lrequests[e] = 0
      /\ (lpc[c] = "done" /\ lpc[e] = "done") => lresult[e] = lresult[c]

C25_Inv ==
  \A c \in Lookups :
    /\ Checked(c) =>
         /\ lrequests[c] = (IF Fresh(lcached[c], lnow[c]) THEN 0 ELSE 1)
         /\ (lcached[c] # NoEntry /\ lnow[c] - lcached[c].ts < CACHE_TTL_MS) =>
              /\ lpc[c] = "done"
              /\ lresult[c] = lcached[c].result
         /\ (lcached[c] = NoEntry \/ lnow[c] - lcached[c].ts >= CACHE_TTL_MS) =>
              lrequests[c] = 1
    /\ (lpc[c] # "idle" /\ ldomain[c] = <<>>) =>
         lpc[c] = "done" /\ lrequests[c] = 0 /\ lresult[c] = NullResult

C25_Step ==
  \A c \in Lookups :
    /\ (lpc[c] = "idle" /\ lpc'[c] # "idle" /\ ldomain'[c] # <<>>) =>
         /\ lcached'[c] = cache[CleanDomain(ldomain'[c])]
         /\ lnow'[c] = dateNow
         /\ lpc'[c] = "done" => cache' = cache
    /\ (lpc[c] = "fetching" /\ lpc'[c] = "done") =>
         cache' = [cache EXCEPT ![CleanDomain(ldomain[c])] =
                     [ts |-> lnow[c], result |-> lresult'[c]]]

\* C25, amended: a call that finds for its domain (leading "www." stripped)
\* an entry less than 24 hours old, counted from the start of the call that
\* stored it, issues no request and returns the entry's result, null
\* included; every other call with a non-empty domain issues one request and
\* stores its result under its own start time when it completes.
C25_FreshEntryServed == []C25_Inv /\ [][C25_Step]_vars

\* a lookup of "d" was answered with the null that a failed lookup of
\* "www.d" had cached, and a later one, 24 hours after that entry was
\* made, issued a new request
C25_Witness ==
  \E c, e, f \in Lookups :
    /\ ldomain[c] = <<"www", "d">> /\ loutcome[c] \in {"notok", "throw"}
    /\ ldomain[e] = <<"d">> /\ loutcome[e] = "hit" /\ lresult[e] = NullResult
    /\ lcached[e] = [ts |-> lnow[c], result |-> NullResult]
    /\ ldomain[f] = <<"d">> /\ lnow[f] - lnow[c] = CACHE_TTL_MS
    /\ lrequests[f] = 1

(***************************************************************************)
(* Detection of policy pages and the ignored domains: part_004:175-200,    *)
(* 266-285, storage.js:132-150, panel.js (part_005:48-53).                 *)
(***************************************************************************)
\* part_004:96, 177-178  KEYWORDS.some((k) => lower.includes(k))
HasKeyword(u) == u.kw
\* new URL(url).hostname
Hostname(u) == u.host
\* storage.js:146-150  ignoredDomains.includes(domain)
IsDomainIgnored(d) == d \in ignoredDomains

\* part_004:175-180: a tab reports status "complete" with a keyword url;
\* the listener calls isDomainIgnored and awaits it
TabsOnUpdated(h, t, u) ==
  /\ det[h].pc = "idle"
  /\ tabLife[t] = "open"
  /\ HasKeyword(u)
  /\ det' = [det EXCEPT ![h] = [pc |-> "await", kind |-> "updated", tab |-> t, url |-> u]]
  /\ UNCHANGED <<policyLinks, pageLangs, iconState, tabLife, ignoredDomains, adding>>
  /\ UNCHANGED <<coreVars, tosdrVars, secretVars>>

\* part_004:272-279: the content script of a tab reports its first policy
\* link; the handler calls isDomainIgnored and awaits it
PrivacyLinksFound(h, t, u) ==
  /\ det[h].pc = "idle"
  /\ tabLife[t] = "open"
  /\ det' = [det EXCEPT ![h] = [pc |-> "await", kind |-> "links", tab |-> t, url |-> u]]
  /\ UNCHANGED <<policyLinks, pageLangs, iconState, tabLife, ignoredDomains, adding>>
  /\ UNCHANGED <<coreVars, tosdrVars, secretVars>>

\* part_004:180-182 and 279-283: isDomainIgnored resolves and the handler
\* goes on: policyLinks.set and setIconState("alert") unless ignored
DetectionResumes(h) ==
  /\ det[h].pc = "await"
  /\ det' = [det EXCEPT ![h] = DetIdle]
  /\ IF IsDomainIgnored(Hostname(det[h].url))
       THEN UNCHANGED <<policyLinks, iconState>>
       ELSE /\ policyLinks' = [policyLinks EXCEPT ![det[h].tab] = det[h].url]
            /\ iconState' = [iconState EXCEPT ![det[h].tab] = "alert"]
  /\ UNCHANGED <<pageLangs, tabLife, ignoredDomains, adding>>
  /\ UNCHANGED <<coreVars, tosdrVars, secretVars>>

\* part_004:268-270: PAGE_LANGUAGE from the content script of a tab
PageLanguage(t, l) ==
  /\ tabLife[t] = "open"
  /\ pageLangs[t] # l
  /\ pageLangs' = [pageLangs EXCEPT ![t] = l]
  /\ UNCHANGED <<policyLinks, iconState, tabLife, ignoredDomains, adding, det>>
  /\ UNCHANGED <<coreVars, tosdrVars, secretVars>>

\* the browser opens a tab under an id not used before
TabOpened(t) ==
  /\ tabLife[t] = "future"
  /\ tabLife' = [tabLife EXCEPT ![t] = "open"]
  /\ UNCHANGED <<policyLinks, pageLangs, iconState, ignoredDomains, adding, det>>
  /\ UNCHANGED <<coreVars, tosdrVars, secretVars>>

\* part_004:190-193: a tab is closed
TabsOnRemoved(t) ==
  /\ tabLife[t] = "open"
  /\ tabLife' = [tabLife EXCEPT ![t] = "gone"]
  /\ policyLinks' = [policyLinks EXCEPT ![t] = NoLink]
  /\ pageLangs' = [pageLangs EXCEPT ![t] = NoLang]
  /\ UNCHANGED <<iconState, ignoredDomains, adding, det>>
  /\ UNCHANGED <<coreVars, tosdrVars, secretVars>>

\* part_004:195-200: tab r is replaced by tab a (prerender, instant page)
TabsOnReplaced(a, r) ==
  /\ tabLife[r] = "open"
  /\ tabLife[a] = "future"
  /\ tabLife' = [tabLife EXCEPT ![r] = "gone", ![a] = "open"]
  /\ policyLinks' = [policyLinks EXCEPT ![r] = NoLink, ![a] = NoLink]
  /\ pageLangs' = [pageLangs EXCEPT ![r] = NoLang, ![a] = NoLang]
  /\ UNCHANGED <<iconState, ignoredDomains, adding, det>>
  /\ UNCHANGED <<coreVars, tosdrVars, secretVars>>

\* part_005:23-29, 48-51 with storage.js:133-136: the panel of a tab with a
\* detected link ignores the link's domain; the list is read
AddIgnoredDomainGet(t) ==
  /\ adding.pc = "idle"
  /\ tabLife[t] = "open"
  /\ policyLinks[t] # NoLink
  /\ ~IsDomainIgnored(Hostname(policyLinks[t]))
  /\ adding' = [pc |-> "set", domain |-> Hostname(policyLinks[t]),
                list |-> ignoredDomains \cup {Hostname(policyLinks[t])}]
  /\ UNCHANGED <<policyLinks, pageLangs, iconState, tabLife, ignoredDomains, det>>
  /\ UNCHANGED <<coreVars, tosdrVars, secretVars>>

\* storage.js:137: the list with the domain is written
AddIgnoredDomainSet ==
  /\ adding.pc = "set"
  /\ ignoredDomains' = adding.list
  /\ adding' = AddIdle
  /\ UNCHANGED <<policyLinks, pageLangs, iconState, tabLife, det>>
  /\ UNCHANGED <<coreVars, tosdrVars, secretVars>>

\* part_005:35-42 with part_004:370-372: SET_ICON_STATE "default"
RestoreIcon(t) ==
  /\ tabLife[t] = "open"
  /\ iconState[t] = "alert"
  /\ iconState' = [iconState EXCEPT ![t] = "default"]
  /\ UNCHANGED <<policyLinks, pageLangs, tabLife, ignoredDomains, adding, det>>
  /\ UNCHANGED <<coreVars, tosdrVars, secretVars>>

NextDetect ==
  \/ \E h \in Detections, t \in DetectTabs, u \in DetectUrls : TabsOnUpdated(h, t, u)
  \/ \E h \in Detections, t \in DetectTabs, u \in DetectUrls : PrivacyLinksFound(h, t, u)
  \/ \E h \in Detections : DetectionResumes(h)
  \/ \E t \in DetectTabs : PageLanguage(t, "en")
  \/ \E t \in DetectTabs : TabOpened(t)
  \/ \E t \in DetectTabs : TabsOnRemoved(t)
  \/ \E a, r \in DetectTabs : TabsOnReplaced(a, r)
  \/ \E t \in DetectTabs : AddIgnoredDomainGet(t)
  \/ AddIgnoredDomainSet
  \/ \E t \in DetectTabs : RestoreIcon(t)

InitDetect ==
  /\ InitHandlers
  /\ summaries = NoSnap
  /\ apiKey = "sk"
  /\ InitPureIdle
  /\ InitAuxIdle

SpecDetect == InitDetect /\ [][NextDetect]_vars

\* C26: policyLinks and pageLangs hold no entry for a tab that has been
\* closed or replaced, also after a detection handler that was awaiting
\* isDomainIgnored when the tab went away has resumed.
C26_NoEntryForGoneTab ==
  \A t \in DetectTabs :
    tabLife[t] = "gone" => policyLinks[t] = NoLink /\ pageLangs[t] = NoLang

\* the hostname of a policy url: each policy url is on its own host
PolicyHost(k) == k

\* detection and the panel on the tabs that are open, together with one
\* SUMMARIZE_POLICY run (popup.js:418, part_004:252-259)
NextIgnore ==
  \/ \E h \in Detections, t \in DetectTabs, u \in DetectUrls : TabsOnUpdated(h, t, u)
  \/ \E h \in Detections, t \in DetectTabs, u \in DetectUrls : PrivacyLinksFound(h, t, u)
  \/ \E h \in Detections : DetectionResumes(h)
  \/ \E t \in DetectTabs : AddIgnoredDomainGet(t)
  \/ AddIgnoredDomainSet
  \/ \E t \in DetectTabs : RestoreIcon(t)
  \/ HandlerStep(1)

SpecIgnore == Init /\ [][NextIgnore]_vars

C27_Step ==
  /\ \A t \in DetectTabs :
       (policyLinks'[t] # policyLinks[t] \/ (iconState[t] # "alert" /\ iconState'[t] = "alert")) =>
         ~IsDomainIgnored(Hostname(policyLinks'[t]))
  /\ \A p \in Procs :
       (net'[p] # net[p] \/ calls'[p] # calls[p]) =>
         ~IsDomainIgnored(PolicyHost(url'[p]))

\* C27: once addIgnoredDomain has stored a domain, no detection handler
\* records a policy link or sets the alert icon for a url on that domain, and
\* no SUMMARIZE_POLICY run for a url on that domain issues a request (policy
\* fetch, rendering tab, provider) or calls summarizePolicy.
C27_IgnoredDomainSilent == [][C27_Step]_vars

(***************************************************************************)
(* The encryption secret and the stored API key: getSecret,                *)
(* part_002:16-54, saveApiKey and getApiKey, storage.js:24-69.             *)
(***************************************************************************)
\* part_002:9
LEGACY_SECRET == <<"extension-policy-secret", 0>>
\* part_002:20-21: 32 random bytes; two calls never draw the same
RandomSecret(c) == <<"random", c>>
\* AES-GCM under the key derived from secret s (part_002:61-68): decrypting
\* under another secret fails the authentication and throws
Encrypt(k, s) == [plain |-> k, under |-> s]
Decrypts(p, s) == p # NoPayload /\ p.under = s
\* the keys the options page saves
ApiKeys == {"sk"}

Call(c, f) == [keyCalls EXCEPT ![c] = f]
Started(c) == IF c = 1 THEN TRUE ELSE keyCalls[c - 1].pc # "idle"

\* storage.js:34-35: saveApiKey(k) calls getCryptoKey, that is getSecret
SaveApiKeyCall(c, k) ==
  /\ keyCalls[c].pc = "idle" /\ Started(c)
  /\ keyCalls' = Call(c, [keyCalls[c] EXCEPT !.pc = "get_secret", !.op = "save", !.key = k])
  /\ UNCHANGED <<secret, apiKeyPayload>>
  /\ UNCHANGED <<coreVars, tosdrVars, detectVars>>

\* storage.js:54-59: getApiKey reads the payload; without one it returns "",
\* otherwise it calls getCryptoKey
GetApiKeyCall(c) ==
  /\ keyCalls[c].pc = "idle" /\ Started(c)
  /\ IF apiKeyPayload = NoPayload
       THEN keyCalls' = Call(c, [keyCalls[c] EXCEPT !.pc = "done", !.op = "get", !.result = ""])
       ELSE keyCalls' = Call(c, [keyCalls[c] EXCEPT !.pc = "get_secret", !.op = "get",
                                       !.payload = apiKeyPayload])
  /\ UNCHANGED <<secret, apiKeyPayload>>
  /\ UNCHANGED <<coreVars, tosdrVars, detectVars>>

\* part_002:17-21: the stored secret is read; when there is one it is
\* returned, otherwise a new one is drawn
GetSecretRead(c) ==
  /\ keyCalls[c].pc = "get_secret"
  /\ IF secret # NoSecret
       THEN keyCalls' = Call(c, [keyCalls[c] EXCEPT !.pc = "crypt", !.secret = secret])
       ELSE keyCalls' = Call(c, [keyCalls[c] EXCEPT !.pc = "migrate", !.newSecret = RandomSecret(c)])
  /\ UNCHANGED <<secret, apiKeyPayload>>
  /\ UNCHANGED <<coreVars, tosdrVars, detectVars>>

\* part_002:23-50: the stored payload is read; one that decrypts under the
\* legacy secret is encrypted again under the new secret, any other is left
GetSecretMigrate(c) ==
  /\ keyCalls[c].pc = "migrate"
  /\ IF Decrypts(apiKeyPayload, LEGACY_SECRET)
       THEN apiKeyPayload' = Encrypt(apiKeyPayload.plain, keyCalls[c].newSecret)
       ELSE UNCHANGED apiKeyPayload
  /\ keyCalls' = Call(c, [keyCalls[c] EXCEPT !.pc = "set_secret"])
  /\ UNCHANGED secret
  /\ UNCHANGED <<coreVars, tosdrVars, detectVars>>

\* part_002:52-53: the new secret is stored and returned
GetSecretSet(c) ==
  /\ keyCalls[c].pc = "set_secret"
  /\ secret' = keyCalls[c].newSecret
  /\ keyCalls' = Call(c, [keyCalls[c] EXCEPT !.pc = "crypt", !.secret = keyCalls[c].newSecret])
  /\ UNCHANGED apiKeyPayload
  /\ UNCHANGED <<coreVars, tosdrVars, detectVars>>

\* storage.js:36-47: the key is encrypted under the secret and stored
SaveApiKeySet(c) ==
  /\ keyCalls[c].pc = "crypt" /\ keyCalls[c].op = "save"
  /\ apiKeyPayload' = Encrypt(keyCalls[c].key, keyCalls[c].secret)
  /\ keyCalls' = Call(c, [keyCalls[c] EXCEPT !.pc = "done"])
  /\ UNCHANGED secret
  /\ UNCHANGED <<coreVars, tosdrVars, detectVars>>

\* storage.js:60-68: the payload read at the start is decrypted; a failure
\* is caught and "" returned
GetApiKeyDecrypt(c) ==
  /\ keyCalls[c].pc = "crypt" /\ keyCalls[c].op = "get"
  /\ keyCalls' = Call(c, [keyCalls[c] EXCEPT !.pc = "done",
                      !.result = IF Decrypts(keyCalls[c].payload, keyCalls[c].secret)
                                   THEN keyCalls[c].payload.plain ELSE ""])
  /\ UNCHANGED <<secret, apiKeyPayload>>
  /\ UNCHANGED <<coreVars, tosdrVars, detectVars>>

NextSecret ==
  \/ \E c \in SecretCalls, k \in ApiKeys : SaveApiKeyCall(c, k)
  \/ \E c \in SecretCalls : GetApiKeyCall(c)
  \/ \E c \in SecretCalls : GetSecretRead(c)
  \/ \E c \in SecretCalls : GetSecretMigrate(c)
  \/ \E c \in SecretCalls : GetSecretSet(c)
  \/ \E c \in SecretCalls : SaveApiKeySet(c)
  \/ \E c \in SecretCalls : GetApiKeyDecrypt(c)

\* a fresh install, or an install that holds a key stored under the legacy
\* secret
InitSecret ==
  /\ InitHandlers
  /\ summaries = NoSnap
  /\ apiKey = "sk"
  /\ InitPureIdle
  /\ InitTosdrIdle
  /\ InitDetectIdle
  /\ secret = NoSecret
  /\ apiKeyPayload \in {NoPayload, Encrypt("old", LEGACY_SECRET)}
  /\ keyCalls = [c \in SecretCalls |-> CallIdle]

SpecSecret == InitSecret /\ [][NextSecret]_vars

\* getSecret has returned to the call
HasSecret(c) == keyCalls[c].secret # NoSecret

\* C30: all getSecret calls return the same secret, which is the stored
\* one, also when two of them run interleaved while none is stored; so a
\* key stored by saveApiKey decrypts under the secret every later getApiKey
\* gets, which then returns the key unchanged.
C30_OneSecret ==
  /\ \A c, e \in SecretCalls :
       (HasSecret(c) /\ HasSecret(e)) => keyCalls[c].secret = keyCalls[e].secret
  /\ \A c \in SecretCalls : HasSecret(c) => keyCalls[c].secret = secret
  /\ \A c, e \in SecretCalls :
       (keyCalls[c].op = "save" /\ keyCalls[c].pc = "done" /\ keyCalls[e].op = "get" /\ keyCalls[e].pc = "done"
          /\ keyCalls[e].payload = Encrypt(keyCalls[c].key, keyCalls[c].secret)) =>
         keyCalls[e].result = keyCalls[c].key
  /\ (\A c \in SecretCalls : keyCalls[c].pc \in {"idle", "done"}) =>
       (apiKeyPayload # NoPayload /\ secret # NoSecret => Decrypts(apiKeyPayload, secret))
====
